---- MODULE Spec2Model ----
(***************************************************************************)
(* Model of prehrajto-core: the rate-limited, retrying fetch layer         *)
(* (client.rs: RateLimiter::acquire and PrehrajtoClient::{fetch,           *)
(* fetch_with_retry, do_fetch, fetch_download_page, is_retryable}), the    *)
(* methods of PrehrajtoScraper (scraper.rs) and the page parsers           *)
(* (parser/direct_url.rs, parser/search.rs, url.rs).                       *)
(*                                                                         *)
(* Callers are tasks that share one PrehrajtoClient and therefore one      *)
(* RateLimiter.  Time is counted in whole seconds.  The program reads the  *)
(* clock only as durations (last.elapsed(), sleep(d)), so the state holds  *)
(* durations: the time since the instant stored in last_request and the    *)
(* time left of every sleep.  A duration the program only compares with    *)
(* min_interval stops growing once it has reached min_interval.            *)
(***************************************************************************)
EXTENDS Integers, Sequences, FiniteSets, TLC

\* ------------------------------------------------------------------ bounds
\* Number of tasks sharing the client.
NumCallers == 2
\* ClientConfig.max_retries (configurable).
max_retries == 2
\* RateLimiter.min_interval in seconds, 1 / requests_per_second (configurable).
min_interval == 2

\* --------------------------------------------------------------- constants
\* do_fetch: let max_redirects = 5
max_redirects == 5

Callers == 1 .. NumCallers
\* The task that runs fetch and fetch_download_page.  The other tasks stand
\* for every other user of the client: all an operation does to the state
\* shared between tasks is to call acquire().
Fetchers == {1}
NoCaller == 0

VARIABLES
    elapsed,        \* last_request.elapsed(): time since the stored instant
    holder,         \* owner of the tokio Mutex, NoCaller when unlocked
    waiters,        \* FIFO queue of tasks suspended in lock().await
    pc,             \* each task's position
    op,             \* the operation each task is running
    remaining,      \* time left of the sleep a task is suspended in
    attempt,        \* fetch_with_retry: attempt
    last_error,     \* fetch_with_retry: last_error
    hops,           \* do_fetch: iterations of the redirect loop begun
    current_url,    \* do_fetch: current_url
    response,       \* the answer to the task's last GET
    fetched,        \* value do_fetch returned to fetch_with_retry
    result,         \* value the operation returned to its caller
    waited,         \* history: wait_time computed by the task's bare acquire()
    grant_gap,      \* history: time between the last two writes of last_request
    slot_reads,     \* history: acquirers, not abandoned, that read the current last_request
    get_age,        \* history: time since the last GET was sent
    nAcq,           \* history: acquire() calls returned in the current operation
    nSleep,         \* history: backoff sleeps begun in the current operation
    api,            \* PrehrajtoScraper: the method each task is running
    arg,            \* PrehrajtoScraper: its query, movie_name or video_id
    outcome,        \* PrehrajtoScraper: value the method returned
    step1,          \* get_original_url: what step 1, the video-page fetch, returned
    page,           \* parser: the page text handed to a parser, as its constructs
    parsed,         \* parser: the parser applied last and the value it returned
    input,          \* pure function: the arguments it is applied to
    output          \* pure function: the function applied last and its value

limiterVars == <<elapsed, holder, waiters, grant_gap, slot_reads>>
taskVars == <<pc, op, remaining, result, waited, nAcq>>
fetchVars ==
    <<attempt, last_error, hops, current_url, response, fetched, get_age, nSleep>>
scraperVars == <<api, arg, outcome, step1>>
parserVars == <<page, parsed>>
pureVars == <<input, output>>
vars == <<limiterVars, taskVars, fetchVars, scraperVars, parserVars, pureVars>>

Min(a, b) == IF a < b THEN a ELSE b
Max(a, b) == IF a > b THEN a ELSE b

\* ------------------------------------------------------------------ values
\* URLs are sequences of tokens; str::contains(token) is membership.
CDN_TOKEN == "premiumcdn.net"
BASE_URL == <<"https://", "prehraj.to">>
Path == <<"/", "slug", "/", "id">>
SiteLocation == <<"https://", "prehraj.to", "/", "login">>
RelativeLocation == <<"/", "login">>
CdnLocation == <<"https://", "pf-storage3", ".", "premiumcdn.net", "/", "file.mp4">>
TokenInQueryLocation == <<"https://", "prehraj.to", "/", "go", "?u=", "premiumcdn.net">>
NoUrl == <<>>

\* Location header of a response: absent, not valid text, or a URL.
NoLocation == <<"(none)">>
OpaqueLocation == <<"(bytes)">>
Locations == {SiteLocation, RelativeLocation, CdnLocation, TokenInQueryLocation}

Contains(url, token) == \E i \in 1 .. Len(url) : url[i] = token

\* The host of an absolute URL: the tokens between the scheme and the path.
RECURSIVE HostEnd(_, _)
HostEnd(url, i) ==
    IF i > Len(url) \/ url[i] = "/" THEN i - 1 ELSE HostEnd(url, i + 1)
IsAbsolute(url) == Len(url) >= 2 /\ url[1] = "https://"
Host(url) == IF IsAbsolute(url) THEN SubSeq(url, 2, HostEnd(url, 2)) ELSE <<>>

\* Result<String> values.  http is the reqwest::Error class of an HttpError;
\* hop tells which response of the attempt a body was read from.
None == [tag |-> "None", kind |-> "-", http |-> "-", status |-> 0, hop |-> 0, url |-> NoUrl]
Ok(status, hop) ==
    [tag |-> "Ok", kind |-> "body", http |-> "-", status |-> status, hop |-> hop, url |-> NoUrl]
Err(kind, http, status, url) ==
    [tag |-> "Err", kind |-> kind, http |-> http, status |-> status, hop |-> 0, url |-> url]
RateLimited == Err("RateLimited", "-", 0, NoUrl)
NotFound(url) == Err("NotFound", "-", 0, url)
ParseError == Err("ParseError", "-", 0, NoUrl)
HttpError(class, status) == Err("HttpError", class, status, NoUrl)
Unit == [tag |-> "Ok", kind |-> "unit", http |-> "-", status |-> 0, hop |-> 0, url |-> NoUrl]

\* What the network can answer to one GET.
SendFailures == {"timeout", "connect", "request"}
BodyResults == {"ok", "timeout", "decode"}
Statuses == {200, 302, 403, 404, 429, 503}
IsRedirection(s) == s >= 300 /\ s <= 399
IsServerError(s) == s >= 500 /\ s <= 599
Responses ==
    { [status |-> s, location |-> NoLocation] : s \in Statuses }
    \cup { [status |-> 302, location |-> l] : l \in Locations \cup {OpaqueLocation} }
NoResponse == [status |-> 0, location |-> <<"(pending)">>]
SendFailed == [status |-> 0, location |-> <<"(send failed)">>]

\* -------------------------------------------------------------------- Init
\* RateLimiter::new: last_request = Instant::now() - min_interval.
InitClient ==
    /\ elapsed = min_interval
    /\ holder = NoCaller
    /\ waiters = <<>>
    /\ pc = [p \in Callers |-> "idle"]
    /\ op = [p \in Callers |-> "none"]
    /\ remaining = [p \in Callers |-> 0]
    /\ attempt = [p \in Callers |-> 0]
    /\ last_error = [p \in Callers |-> None]
    /\ hops = [p \in Callers |-> 0]
    /\ current_url = [p \in Callers |-> NoUrl]
    /\ response = [p \in Callers |-> NoResponse]
    /\ fetched = [p \in Callers |-> None]
    /\ result = [p \in Callers |-> None]
    /\ waited = [p \in Callers |-> 0]
    /\ grant_gap = min_interval
    /\ slot_reads = 0
    /\ get_age = min_interval
    /\ nAcq = [p \in Callers |-> 0]
    /\ nSleep = [p \in Callers |-> 0]
    /\ api = [p \in Callers |-> "none"]
    /\ arg = [p \in Callers |-> <<>>]
    /\ outcome = [p \in Callers |-> None]
    /\ step1 = [p \in Callers |-> None]

\* No page has been handed to a parser.
NoPage == <<>>
NotParsed == [by |-> "none", tag |-> "None", via |-> "-", value |-> <<>>]
NoInput == <<>>
NotApplied == [by |-> "none", of |-> <<>>, value |-> <<>>]
InitPure == input = NoInput /\ output = NotApplied
Init == InitClient /\ page = NoPage /\ parsed = NotParsed /\ InitPure

\* -------------------------------------------------------------------- time
\* One second passes: every running sleep has one second less to go.
Tick ==
    /\ elapsed' = Min(elapsed + 1, min_interval)
    /\ get_age' = Min(get_age + 1, min_interval)
    /\ remaining' = [p \in Callers |-> Max(remaining[p] - 1, 0)]
    /\ UNCHANGED <<holder, waiters, grant_gap, slot_reads>>
    /\ UNCHANGED <<pc, op, result, waited, nAcq>>
    /\ UNCHANGED <<attempt, last_error, hops, current_url, response, fetched, nSleep>>
    /\ UNCHANGED <<scraperVars, parserVars, pureVars>>

\* ----------------------------------------------------------------- acquire
\* acquire, lines 63-66: wait_time = min_interval - elapsed when
\* elapsed < min_interval; no sleep otherwise.
WaitTimeNoSleep(e) == 0
WaitTime(e) == IF e < min_interval THEN min_interval - e ELSE 0

\* tokio::sync::Mutex::lock: granted in FIFO order, to one task at a time.
LockGrantedUnlocked(p) == \E i \in 1 .. Len(waiters) : waiters[i] = p
LockGranted(p) == holder = NoCaller /\ waiters # <<>> /\ Head(waiters) = p

\* The MutexGuard `last` is dropped when acquire returns.
GuardLeaked(p) == p
GuardDropped(p) == NoCaller

\* A task begins an operation that is a bare acquire().
StartAcquire(p) ==
    /\ pc[p] \in {"idle", "done"}
    /\ op' = [op EXCEPT ![p] = "acquire"]
    /\ result' = [result EXCEPT ![p] = None]
    /\ waited' = [waited EXCEPT ![p] = 0]
    /\ nAcq' = [nAcq EXCEPT ![p] = 0]
    /\ waiters' = Append(waiters, p)
    /\ pc' = [pc EXCEPT ![p] = "lock"]
    /\ UNCHANGED <<elapsed, holder, grant_gap, slot_reads, remaining, fetchVars>>
    /\ UNCHANGED <<scraperVars, parserVars, pureVars>>

\* acquire, lines 60-66: the lock is obtained, elapsed is read and the sleep,
\* if any, begins.
AcquireLock(p) ==
    /\ pc[p] = "lock"
    /\ LockGranted(p)
    /\ holder' = p
    /\ waiters' = SelectSeq(waiters, LAMBDA q : q # p)
    /\ slot_reads' = slot_reads + 1
    /\ remaining' = [remaining EXCEPT ![p] = WaitTime(elapsed)]
    /\ waited' = [waited EXCEPT ![p] = IF op[p] = "acquire" THEN WaitTime(elapsed) ELSE 0]
    /\ pc' = [pc EXCEPT ![p] = "limiter_sleep"]
    /\ UNCHANGED <<elapsed, grant_gap, op, result, nAcq, fetchVars>>
    /\ UNCHANGED <<scraperVars, parserVars, pureVars>>

\* acquire, lines 68-69: the sleep is over, *last = Instant::now() is
\* written, the guard is dropped and acquire returns to the operation that
\* called it: a bare acquire() is done, fetch_with_retry calls do_fetch,
\* fetch_download_page sends its GET.
AcquireWrite(p) ==
    /\ pc[p] = "limiter_sleep"
    /\ remaining[p] = 0
    /\ elapsed' = 0
    /\ grant_gap' = elapsed
    /\ slot_reads' = IF elapsed = 0 THEN slot_reads ELSE 0
    /\ holder' = IF holder = p THEN GuardDropped(p) ELSE holder
    /\ nAcq' = [nAcq EXCEPT ![p] = @ + 1]
    /\ IF op[p] = "acquire"
       THEN /\ pc' = [pc EXCEPT ![p] = "done"]
            /\ result' = [result EXCEPT ![p] = Unit]
            /\ UNCHANGED <<hops, current_url>>
       ELSE /\ pc' = [pc EXCEPT ![p] = "get"]
            /\ hops' = [hops EXCEPT ![p] = 0]
            /\ current_url' = [current_url EXCEPT ![p] = BASE_URL \o Path]
            /\ UNCHANGED result
    /\ UNCHANGED <<waiters, op, remaining, waited>>
    /\ UNCHANGED <<attempt, last_error, response, fetched, get_age, nSleep>>
    /\ UNCHANGED <<scraperVars, parserVars, pureVars>>

NextLimiter ==
    \/ Tick
    \/ \E p \in Callers : StartAcquire(p)
    \/ \E p \in Callers : AcquireLock(p)
    \/ \E p \in Callers : AcquireWrite(p)

\* Tasks that only run acquire(), as in test_rate_limiter_acquire.
SpecLimiter == Init /\ [][NextLimiter]_vars

\* tokio's scheduler polls every ready task, its timer fires every elapsed
\* sleep, and its Mutex hands the lock over in FIFO order.
FairLimiter ==
    /\ SpecLimiter
    /\ WF_vars(Tick)
    /\ \A p \in Callers : WF_vars(AcquireLock(p)) /\ WF_vars(AcquireWrite(p))

\* ------------------------------------------------------------------ fetch
\* is_retryable, lines 247-260.
is_retryable_any(e) == e.tag = "Err"
is_retryable(e) ==
    \/ e.kind = "RateLimited"
    \/ /\ e.kind = "HttpError"
       /\ \/ e.http = "timeout"
          \/ e.http = "connect"
          \/ e.http = "status" /\ IsServerError(e.status)

\* fetch_with_retry, line 154: the condition under which an error is retried.
ShouldRetryInclusive(e, a) == is_retryable(e) /\ a <= max_retries
ShouldRetry(e, a) == is_retryable(e) /\ a < max_retries

\* fetch_with_retry, line 156: Duration::from_secs(1 << attempt).
Backoff(a) == 2 ^ a

\* do_fetch, line 208: loc_str.contains("premiumcdn.net").
IsCdnLocation(loc) == Contains(loc, CDN_TOKEN)

\* do_fetch, line 205: the Location header is present and is valid text.
HasLocation(r) == r.location \notin {NoLocation, OpaqueLocation}

\* do_fetch, line 178: for _ in 0..max_redirects, after h iterations.
LoopContinuesWhileRedirected(h) == TRUE
LoopContinues(h) == h < max_redirects

\* response.text().await.map_err(HttpError) of the response to hop h.
Text(r, h, body) == IF body = "ok" THEN Ok(r.status, h) ELSE HttpError(body, 0)

\* do_fetch, lines 186-218: what one iteration does with a response, either
\* returning from do_fetch or following the Location.
Return(v) == [do |-> "return", value |-> v, url |-> NoUrl]
Follow(url) == [do |-> "follow", value |-> None, url |-> url]
OnResponseUnclassified(url, h, r, body) ==
    IF r.status = 404 THEN Return(NotFound(url))
    ELSE IF IsRedirection(r.status) /\ HasLocation(r) /\ ~IsCdnLocation(r.location)
         THEN Follow(r.location)
    ELSE Return(Text(r, h, body))
OnResponse(url, h, r, body) ==
    IF r.status = 429 THEN Return(RateLimited)
    ELSE IF r.status = 404 THEN Return(NotFound(url))
    ELSE IF IsServerError(r.status) THEN Return(HttpError("status", r.status))
    ELSE IF IsRedirection(r.status) /\ HasLocation(r)
         THEN IF IsCdnLocation(r.location)
              THEN Return(Text(r, h, body))
              ELSE Follow(r.location)
    ELSE Return(Text(r, h, body))

\* fetch_with_retry, lines 147-149: an attempt begins with acquire().
EnterAttemptUnlimited(p) ==
    /\ pc' = [pc EXCEPT ![p] = "get"]
    /\ hops' = [hops EXCEPT ![p] = 0]
    /\ current_url' = [current_url EXCEPT ![p] = BASE_URL \o Path]
    /\ UNCHANGED waiters
EnterAttempt(p) ==
    /\ pc' = [pc EXCEPT ![p] = "lock"]
    /\ waiters' = Append(waiters, p)
    /\ hops' = [hops EXCEPT ![p] = 0]
    /\ current_url' = [current_url EXCEPT ![p] = NoUrl]

\* fetch, lines 137-146: the operation begins; 0 <= max_retries holds.
fetch(p) ==
    /\ pc[p] \in {"idle", "done"}
    /\ op' = [op EXCEPT ![p] = "fetch"]
    /\ result' = [result EXCEPT ![p] = None]
    /\ attempt' = [attempt EXCEPT ![p] = 0]
    /\ last_error' = [last_error EXCEPT ![p] = None]
    /\ response' = [response EXCEPT ![p] = NoResponse]
    /\ fetched' = [fetched EXCEPT ![p] = None]
    /\ waited' = [waited EXCEPT ![p] = 0]
    /\ nAcq' = [nAcq EXCEPT ![p] = 0]
    /\ nSleep' = [nSleep EXCEPT ![p] = 0]
    /\ EnterAttempt(p)
    /\ UNCHANGED <<elapsed, holder, grant_gap, slot_reads, remaining, get_age>>

\* A task calls fetch on the client directly.
StartFetch(p) == fetch(p) /\ UNCHANGED <<scraperVars, parserVars, pureVars>>

\* fetch_download_page, lines 231-234: the operation begins with acquire().
fetch_download_page(p) ==
    /\ pc[p] \in {"idle", "done"}
    /\ op' = [op EXCEPT ![p] = "fetch_download_page"]
    /\ result' = [result EXCEPT ![p] = None]
    /\ attempt' = [attempt EXCEPT ![p] = 0]
    /\ last_error' = [last_error EXCEPT ![p] = None]
    /\ response' = [response EXCEPT ![p] = NoResponse]
    /\ fetched' = [fetched EXCEPT ![p] = None]
    /\ waited' = [waited EXCEPT ![p] = 0]
    /\ nAcq' = [nAcq EXCEPT ![p] = 0]
    /\ nSleep' = [nSleep EXCEPT ![p] = 0]
    /\ pc' = [pc EXCEPT ![p] = "lock"]
    /\ waiters' = Append(waiters, p)
    /\ hops' = [hops EXCEPT ![p] = 0]
    /\ current_url' = [current_url EXCEPT ![p] = NoUrl]
    /\ UNCHANGED <<elapsed, holder, grant_gap, slot_reads, remaining, get_age>>

\* A task calls fetch_download_page on the client directly.
StartDownload(p) == fetch_download_page(p) /\ UNCHANGED <<scraperVars, parserVars, pureVars>>

\* fetch_with_retry, lines 151-163: the match on the value v that do_fetch
\* returned after h iterations with current_url = u.  An error that is
\* retried is held across the backoff sleep, the locals of do_fetch being
\* gone; otherwise fetch returns v and its own locals are gone.
Returned(p, v, h, u) ==
    /\ fetched' = [fetched EXCEPT ![p] = v]
    /\ IF v.tag = "Err" /\ ShouldRetry(v, attempt[p])
       THEN /\ remaining' = [remaining EXCEPT ![p] = Backoff(attempt[p])]
            /\ nSleep' = [nSleep EXCEPT ![p] = @ + 1]
            /\ pc' = [pc EXCEPT ![p] = "backoff"]
            /\ hops' = [hops EXCEPT ![p] = 0]
            /\ current_url' = [current_url EXCEPT ![p] = NoUrl]
            /\ UNCHANGED <<result, last_error>>
       ELSE /\ result' = [result EXCEPT ![p] = v]
            /\ pc' = [pc EXCEPT ![p] = "done"]
            /\ hops' = [hops EXCEPT ![p] = h]
            /\ current_url' = [current_url EXCEPT ![p] = u]
            /\ last_error' = [last_error EXCEPT ![p] = None]
            /\ UNCHANGED <<remaining, nSleep>>

\* do_fetch, lines 179-184, and fetch_download_page, lines 236-241:
\* client.get(url).send().  A URL with no scheme never reaches the network:
\* send() fails with a builder error, which do_fetch returns.
GetSend(p) ==
    /\ pc[p] = "get"
    /\ response' = [response EXCEPT ![p] = NoResponse]
    /\ IF IsAbsolute(current_url[p])
       THEN /\ pc' = [pc EXCEPT ![p] = "io"]
            /\ hops' = [hops EXCEPT ![p] = @ + 1]
            /\ get_age' = 0
            /\ UNCHANGED <<fetched, result, remaining, nSleep, current_url, last_error>>
       ELSE /\ Returned(p, HttpError("builder", 0), hops[p] + 1, current_url[p])
            /\ UNCHANGED get_age
    /\ UNCHANGED <<limiterVars, op, waited, nAcq, attempt>>
    /\ UNCHANGED <<scraperVars, parserVars, pureVars>>

\* do_fetch, line 184: send() fails; do_fetch returns the HttpError.
FetchSendFails(p) ==
    /\ pc[p] = "io"
    /\ op[p] = "fetch"
    /\ \E f \in SendFailures : Returned(p, HttpError(f, 0), hops[p], current_url[p])
    /\ response' = [response EXCEPT ![p] = SendFailed]
    /\ UNCHANGED <<limiterVars, op, waited, nAcq, attempt, get_age>>
    /\ UNCHANGED <<scraperVars, parserVars, pureVars>>

\* do_fetch, lines 186-223: a response arrives and is classified; a
\* followed redirect goes round the loop or runs out of iterations.
FetchResponse(p) ==
    /\ pc[p] = "io"
    /\ op[p] = "fetch"
    /\ \E r \in Responses, body \in BodyResults :
          LET out == OnResponse(current_url[p], hops[p], r, body)
          IN /\ response' = [response EXCEPT ![p] = r]
             /\ IF out.do = "return"
                THEN Returned(p, out.value, hops[p], current_url[p])
                ELSE IF LoopContinues(hops[p])
                     THEN /\ current_url' = [current_url EXCEPT ![p] = out.url]
                          /\ pc' = [pc EXCEPT ![p] = "get"]
                          /\ UNCHANGED <<fetched, result, remaining, nSleep, hops, last_error>>
                     ELSE Returned(p, ParseError, hops[p], out.url)
    /\ UNCHANGED <<limiterVars, op, waited, nAcq, attempt, get_age>>
    /\ UNCHANGED <<scraperVars, parserVars, pureVars>>

\* fetch_with_retry, lines 157-159, 147 and 167: the backoff sleep ends,
\* the error is moved into last_error, attempt is incremented and the loop
\* condition is evaluated again; when it fails, the function returns
\* Err(last_error.unwrap_or(RateLimited)).
BackoffWake(p) ==
    /\ pc[p] = "backoff"
    /\ remaining[p] = 0
    /\ fetched' = [fetched EXCEPT ![p] = None]
    /\ response' = [response EXCEPT ![p] = NoResponse]
    /\ attempt' = [attempt EXCEPT ![p] = @ + 1]
    /\ IF attempt[p] + 1 <= max_retries
       THEN /\ last_error' = [last_error EXCEPT ![p] = fetched[p]]
            /\ EnterAttempt(p)
            /\ UNCHANGED result
       ELSE /\ result' = [result EXCEPT ![p] =
                            IF fetched[p].tag = "None" THEN RateLimited ELSE fetched[p]]
            /\ last_error' = [last_error EXCEPT ![p] = None]
            /\ pc' = [pc EXCEPT ![p] = "done"]
            /\ UNCHANGED <<waiters, hops, current_url>>
    /\ UNCHANGED <<elapsed, holder, grant_gap, slot_reads, op, remaining, waited, nAcq>>
    /\ UNCHANGED <<get_age, nSleep>>
    /\ UNCHANGED <<scraperVars, parserVars, pureVars>>

\* fetch_download_page, lines 236-243: the answer to the single GET; the
\* body is returned whatever the status is.
DownloadSendFails(p) ==
    /\ pc[p] = "io"
    /\ op[p] = "fetch_download_page"
    /\ \E f \in SendFailures :
          result' = [result EXCEPT ![p] = HttpError(f, 0)]
    /\ response' = [response EXCEPT ![p] = SendFailed]
    /\ pc' = [pc EXCEPT ![p] = "done"]
    /\ UNCHANGED <<limiterVars, op, remaining, waited, nAcq>>
    /\ UNCHANGED <<attempt, last_error, hops, current_url, fetched, get_age, nSleep>>
    /\ UNCHANGED <<scraperVars, parserVars, pureVars>>

DownloadResponseFollowing(p) ==
    /\ pc[p] = "io"
    /\ op[p] = "fetch_download_page"
    /\ \E r \in Responses, body \in BodyResults :
          /\ response' = [response EXCEPT ![p] = r]
          /\ IF IsRedirection(r.status) /\ HasLocation(r)
             THEN /\ current_url' = [current_url EXCEPT ![p] = r.location]
                  /\ pc' = [pc EXCEPT ![p] = "get"]
                  /\ UNCHANGED result
             ELSE /\ result' = [result EXCEPT ![p] = Text(r, hops[p], body)]
                  /\ pc' = [pc EXCEPT ![p] = "done"]
                  /\ UNCHANGED current_url
    /\ UNCHANGED <<limiterVars, op, remaining, waited, nAcq>>
    /\ UNCHANGED <<attempt, last_error, hops, fetched, get_age, nSleep>>
    /\ UNCHANGED <<scraperVars, parserVars, pureVars>>
DownloadResponse(p) ==
    /\ pc[p] = "io"
    /\ op[p] = "fetch_download_page"
    /\ \E r \in Responses, body \in BodyResults :
          /\ response' = [response EXCEPT ![p] = r]
          /\ result' = [result EXCEPT ![p] = Text(r, hops[p], body)]
    /\ pc' = [pc EXCEPT ![p] = "done"]
    /\ UNCHANGED <<limiterVars, op, remaining, waited, nAcq>>
    /\ UNCHANGED <<attempt, last_error, hops, current_url, fetched, get_age, nSleep>>
    /\ UNCHANGED <<scraperVars, parserVars, pureVars>>

Next ==
    \/ Tick
    \/ \E p \in Callers \ Fetchers : StartAcquire(p)
    \/ \E p \in Callers : AcquireLock(p)
    \/ \E p \in Callers : AcquireWrite(p)
    \/ \E p \in Fetchers : StartFetch(p)
    \/ \E p \in Fetchers : StartDownload(p)
    \/ \E p \in Fetchers : GetSend(p)
    \/ \E p \in Fetchers : FetchSendFails(p)
    \/ \E p \in Fetchers : FetchResponse(p)
    \/ \E p \in Fetchers : BackoffWake(p)
    \/ \E p \in Fetchers : DownloadSendFails(p)
    \/ \E p \in Fetchers : DownloadResponse(p)

\* One task runs fetch and fetch_download_page while the others run acquire().
Spec == Init /\ [][Next]_vars

\* The scheduling of FairLimiter for the tasks of Spec: a ready task is
\* polled, and every GET that was sent is answered or fails.
FairFetch ==
    /\ Spec
    /\ WF_vars(Tick)
    /\ \A p \in Callers : WF_vars(AcquireLock(p)) /\ WF_vars(AcquireWrite(p))
    /\ \A p \in Fetchers :
          /\ WF_vars(GetSend(p))
          /\ WF_vars(FetchSendFails(p) \/ FetchResponse(p))
          /\ WF_vars(DownloadSendFails(p) \/ DownloadResponse(p))
          /\ WF_vars(BackoffWake(p))

\* ------------------------------------------------------------- abandonment
\* The caller drops the future of a running operation.  A future can be
\* dropped only while it is suspended: in lock().await, in a sleep, or in
\* the network I/O of a GET.  Dropping it drops its locals: a waiting lock
\* request leaves the Mutex's queue (tokio's Acquire::drop), a MutexGuard
\* that is held releases the lock (MutexGuard::drop), and nothing is written.
Suspended(p) == pc[p] \in {"lock", "limiter_sleep", "io", "backoff"}
GuardKeptOnDrop(p) == holder
GuardDroppedOnDrop(p) == IF holder = p THEN NoCaller ELSE holder
Drop(p) ==
    /\ Suspended(p)
    /\ holder' = GuardDroppedOnDrop(p)
    /\ waiters' = SelectSeq(waiters, LAMBDA q : q # p)
    /\ slot_reads' = IF holder = p THEN slot_reads - 1 ELSE slot_reads
    /\ pc' = [pc EXCEPT ![p] = "idle"]
    /\ op' = [op EXCEPT ![p] = "abandoned"]
    /\ remaining' = [remaining EXCEPT ![p] = 0]
    /\ result' = [result EXCEPT ![p] = None]
    /\ waited' = [waited EXCEPT ![p] = 0]
    /\ nAcq' = [nAcq EXCEPT ![p] = 0]
    /\ attempt' = [attempt EXCEPT ![p] = 0]
    /\ last_error' = [last_error EXCEPT ![p] = None]
    /\ hops' = [hops EXCEPT ![p] = 0]
    /\ current_url' = [current_url EXCEPT ![p] = NoUrl]
    /\ response' = [response EXCEPT ![p] = NoResponse]
    /\ fetched' = [fetched EXCEPT ![p] = None]
    /\ nSleep' = [nSleep EXCEPT ![p] = 0]
    /\ UNCHANGED <<elapsed, grant_gap, get_age, scraperVars, parserVars, pureVars>>

NextAbandon ==
    \/ Next
    \/ \E p \in Callers : Drop(p)

\* As Spec, with callers that may abandon what they started.
SpecAbandon == Init /\ [][NextAbandon]_vars

\* The scheduling of FairLimiter; nothing obliges a caller to abandon.
FairAbandon ==
    /\ SpecAbandon
    /\ WF_vars(Tick)
    /\ \A p \in Callers : WF_vars(AcquireLock(p)) /\ WF_vars(AcquireWrite(p))

\* ----------------------------------------------------------------- scraper
\* PrehrajtoScraper (scraper.rs): every method validates its argument, then
\* calls the client.  Text arguments are sequences of characters.
MaxArgLen == 2
WhiteSpace == {" "}
Chars == WhiteSpace \cup {"x"}
RECURSIVE Texts(_)
Texts(n) ==
    IF n = 0 THEN {<<>>}
    ELSE Texts(n - 1) \cup { Append(t, c) : t \in Texts(n - 1), c \in Chars }
Args == Texts(MaxArgLen)
\* year: Option<i32>, printed in decimal.
NoYear == <<>>
Years == {NoYear, <<"1", "9", "9", "9">>}

\* str::trim: leading and trailing whitespace removed.
RECURSIVE TrimStart(_)
TrimStart(t) ==
    IF t # <<>> /\ Head(t) \in WhiteSpace THEN TrimStart(Tail(t)) ELSE t
RECURSIVE TrimEnd(_)
TrimEnd(t) ==
    IF t # <<>> /\ t[Len(t)] \in WhiteSpace
    THEN TrimEnd(SubSeq(t, 1, Len(t) - 1)) ELSE t
TrimNothing(t) == t
Trim(t) == TrimEnd(TrimStart(t))

InvalidId(msg) == Err("InvalidId", "-", 0, <<msg>>)

SearchApis == {"search", "search_movie", "search_movie_all"}
VideoApis ==
    { "get_direct_url", "get_video_page_data", "get_video_sources",
      "get_subtitle_tracks", "get_original_url" }
Apis == SearchApis \cup VideoApis

\* search, lines 64-69.
SearchCheck(query) ==
    IF Trim(query) = <<>> THEN InvalidId("Search query cannot be empty") ELSE None
\* search_movie_all, lines 286-298 (search_movie delegates to it, line 269):
\* the query handed to search is the trimmed name, followed by the year.
MovieQuery(trimmed, year) ==
    IF year = NoYear THEN trimmed ELSE trimmed \o <<" ">> \o year
MovieCheck(movie_name, year) ==
    IF Trim(movie_name) = <<>> THEN InvalidId("Movie name cannot be empty")
    ELSE SearchCheck(MovieQuery(Trim(movie_name), year))
\* get_direct_url 122-126, get_video_page_data 179-183 (get_video_sources
\* and get_subtitle_tracks delegate to it), get_original_url 239-243.
VideoIdCheck(video_id) ==
    IF Trim(video_id) = <<>> THEN InvalidId("Video ID cannot be empty") ELSE None

\* What the method returns before it touches the client, None if nothing.
Rejection(a, text, year) ==
    IF a = "search" THEN SearchCheck(text)
    ELSE IF a \in SearchApis THEN MovieCheck(text, year)
    ELSE VideoIdCheck(text)

\* The `?` after a client call: an Err is returned to the caller at once.
PropagatesNothing(v) == FALSE
Propagates(v) == v.tag = "Err"

\* What the parsers make of a page: a value or, for the methods whose
\* parser can fail, a not-found error.  (The parsers are modelled on their
\* own below; here the page text is not part of the state.)
Parsed == [tag |-> "Ok", kind |-> "parsed", http |-> "-", status |-> 0, hop |-> 0, url |-> NoUrl]
NothingFound == NotFound(<<"(in page)">>)
ParseResults(a) ==
    IF a \in {"get_direct_url", "get_original_url"} THEN {Parsed, NothingFound}
    ELSE {Parsed}

\* A task calls a method of the scraper: the argument is checked and, if it
\* passes, the first client call begins.
Call(p) ==
    /\ pc[p] \in {"idle", "done"}
    /\ api[p] = "none" \/ outcome[p] # None
    /\ \E a \in Apis, text \in Args, year \in Years :
          /\ api' = [api EXCEPT ![p] = a]
          /\ arg' = [arg EXCEPT ![p] = text]
          /\ step1' = [step1 EXCEPT ![p] = None]
          /\ IF Rejection(a, text, year) # None
             THEN /\ outcome' = [outcome EXCEPT ![p] = Rejection(a, text, year)]
                  /\ UNCHANGED <<limiterVars, taskVars, fetchVars>>
             ELSE /\ outcome' = [outcome EXCEPT ![p] = None]
                  /\ fetch(p)
    /\ UNCHANGED <<parserVars, pureVars>>

\* The method returns v: the locals of its client call are gone.
Finish(p, v) ==
    /\ outcome' = [outcome EXCEPT ![p] = v]
    /\ pc' = [pc EXCEPT ![p] = "idle"]
    /\ op' = [op EXCEPT ![p] = "none"]
    /\ result' = [result EXCEPT ![p] = None]
    /\ attempt' = [attempt EXCEPT ![p] = 0]
    /\ hops' = [hops EXCEPT ![p] = 0]
    /\ current_url' = [current_url EXCEPT ![p] = NoUrl]
    /\ response' = [response EXCEPT ![p] = NoResponse]
    /\ fetched' = [fetched EXCEPT ![p] = None]
    /\ nAcq' = [nAcq EXCEPT ![p] = 0]
    /\ nSleep' = [nSleep EXCEPT ![p] = 0]
    /\ UNCHANGED <<limiterVars, remaining, waited, last_error, get_age>>

\* The method's first client call, fetch, has returned: an error is the
\* method's result; get_original_url goes on to step 2, lines 250-251; every
\* other method parses the page.
AfterFetch(p) ==
    /\ api[p] # "none" /\ outcome[p] = None
    /\ pc[p] = "done" /\ op[p] = "fetch"
    /\ IF Propagates(result[p])
       THEN /\ Finish(p, result[p])
            /\ step1' = [step1 EXCEPT ![p] =
                            IF api[p] = "get_original_url" THEN result[p] ELSE None]
       ELSE IF api[p] = "get_original_url"
            THEN /\ step1' = [step1 EXCEPT ![p] = result[p]]
                 /\ fetch_download_page(p)
                 /\ UNCHANGED outcome
            ELSE /\ \E v \in ParseResults(api[p]) : Finish(p, v)
                 /\ UNCHANGED step1
    /\ UNCHANGED <<api, arg, parserVars, pureVars>>

\* get_original_url, lines 251-253: fetch_download_page has returned.
AfterDownload(p) ==
    /\ api[p] = "get_original_url" /\ outcome[p] = None
    /\ pc[p] = "done" /\ op[p] = "fetch_download_page"
    /\ IF Propagates(result[p])
       THEN Finish(p, result[p])
       ELSE \E v \in ParseResults(api[p]) : Finish(p, v)
    /\ UNCHANGED <<api, arg, step1, parserVars, pureVars>>

NextScraper ==
    \/ Tick
    \/ \E p \in Callers : AcquireLock(p)
    \/ \E p \in Callers : AcquireWrite(p)
    \/ \E p \in Fetchers : Call(p)
    \/ \E p \in Fetchers : AfterFetch(p)
    \/ \E p \in Fetchers : AfterDownload(p)
    \/ \E p \in Fetchers : GetSend(p)
    \/ \E p \in Fetchers : FetchSendFails(p)
    \/ \E p \in Fetchers : FetchResponse(p)
    \/ \E p \in Fetchers : BackoffWake(p)
    \/ \E p \in Fetchers : DownloadSendFails(p)
    \/ \E p \in Fetchers : DownloadResponse(p)

\* One task calls the methods of a PrehrajtoScraper, one after the other.
SpecScraper == Init /\ [][NextScraper]_vars

\* ----------------------------------------------------------- parser: text
\* Page text, URLs and labels are sequences of tokens.  A substring the code
\* searches for is one token, except an HTML escape, which is the token "&"
\* followed by the token of its name.
AMP == <<"&", "amp;">>
LT == <<"&", "lt;">>
GT == <<"&", "gt;">>
QUOT == <<"&", "quot;">>
APOS == <<"&", "#39;">>

StartsWith(t, prefix) ==
    Len(t) >= Len(prefix) /\ SubSeq(t, 1, Len(prefix)) = prefix
ContainsText(t, part) ==
    \E i \in 1 .. Len(t) : StartsWith(SubSeq(t, i, Len(t)), part)

\* str::replace: the occurrences are found from left to right and do not
\* overlap; the replaced text is not searched again.
RECURSIVE Replace(_, _, _)
Replace(t, from, to) ==
    IF Len(t) < Len(from) THEN t
    ELSE IF StartsWith(t, from)
         THEN to \o Replace(SubSeq(t, Len(from) + 1, Len(t)), from, to)
         ELSE <<Head(t)>> \o Replace(Tail(t), from, to)

\* decode_html_entities: five replace passes, one after the other.
decode_html_entities(url) ==
    Replace(Replace(Replace(Replace(Replace(url,
        AMP, <<"&">>), LT, <<"<">>), GT, <<">">>), QUOT, <<"\"">>), APOS, <<"'">>)

\* The value of an attribute as the HTML parser hands it to the code
\* (element.value().attr(..)): character references are resolved in one pass.
RECURSIVE AttrValue(_)
AttrValue(raw) ==
    IF raw = <<>> THEN <<>>
    ELSE IF StartsWith(raw, AMP) THEN <<"&">> \o AttrValue(SubSeq(raw, 3, Len(raw)))
    ELSE IF StartsWith(raw, LT) THEN <<"<">> \o AttrValue(SubSeq(raw, 3, Len(raw)))
    ELSE IF StartsWith(raw, GT) THEN <<">">> \o AttrValue(SubSeq(raw, 3, Len(raw)))
    ELSE IF StartsWith(raw, QUOT) THEN <<"\"">> \o AttrValue(SubSeq(raw, 3, Len(raw)))
    ELSE IF StartsWith(raw, APOS) THEN <<"'">> \o AttrValue(SubSeq(raw, 3, Len(raw)))
    ELSE <<Head(raw)>> \o AttrValue(Tail(raw))

\* is_cdn_url: a substring test on the whole URL.
is_cdn_url(url) ==
    Contains(url, CDN_TOKEN) \/ (Contains(url, "cdn.") /\ Contains(url, "premium"))

\* Position of the first token of t that is in the set, Len(t) + 1 if none.
RECURSIVE IndexOf(_, _, _)
IndexOf(t, tokens, i) ==
    IF i > Len(t) \/ t[i] \in tokens THEN i ELSE IndexOf(t, tokens, i + 1)

\* Decimal numbers that occur in labels and file names.
Digits == {"480", "720", "1080", "2160"}
ParseU32(token) ==
    CASE token = "480" -> 480
      [] token = "720" -> 720
      [] token = "1080" -> 1080
      [] token = "2160" -> 2160
      [] OTHER -> 0

\* str::to_lowercase on the tokens that have upper-case letters.
ToLowercase(token) ==
    CASE token = "P" -> "p"
      [] token = "ENG" -> "eng"
      [] token = "Simple" -> "simple"
      [] token = "Cze" -> "cze"
      [] OTHER -> token

\* parse_resolution_from_label: trim, lower-case, strip every trailing 'p',
\* parse what is left as u32, 0 when that fails.
RECURSIVE TrimEndMatches(_, _)
TrimEndMatches(t, token) ==
    IF t # <<>> /\ t[Len(t)] = token
    THEN TrimEndMatches(SubSeq(t, 1, Len(t) - 1), token)
    ELSE t
parse_resolution_from_label(label) ==
    LET lowered == [i \in 1 .. Len(label) |-> ToLowercase(label[i])]
        numeric == TrimEndMatches(lowered, "p")
    IN  IF Len(numeric) = 1 /\ numeric[1] \in Digits THEN ParseU32(numeric[1]) ELSE 0

\* parse_resolution_from_text: the first run of 3-4 digits followed by 'p',
\* else 2160 for "4K" or "4k", else 0.
RECURSIVE FirstDigitsP(_, _)
FirstDigitsP(text, i) ==
    IF i >= Len(text) THEN 0
    ELSE IF text[i] \in Digits /\ text[i + 1] = "p" THEN i
    ELSE FirstDigitsP(text, i + 1)
parse_resolution_from_text(text) ==
    IF FirstDigitsP(text, 1) > 0 THEN ParseU32(text[FirstDigitsP(text, 1)])
    ELSE IF Contains(text, "4K") \/ Contains(text, "4k") THEN 2160
    ELSE 0

\* extract_filename_from_url: the value of the first `filename=` parameter of
\* the query, the text between the first and the second '?'.
NoText == <<"(none)">>
AfterToken(t, token) == SubSeq(t, IndexOf(t, {token}, 1) + 1, Len(t))
BeforeToken(t, token) == SubSeq(t, 1, IndexOf(t, {token}, 1) - 1)
\* urlencoding::decode on the one percent escape of the model's file names.
UrlDecode(t) == [i \in 1 .. Len(t) |-> IF t[i] = "%20" THEN " " ELSE t[i]]
RECURSIVE FilenameParam(_)
FilenameParam(query) ==
    IF query = <<>> THEN NoText
    ELSE IF Head(query) = "filename=" THEN UrlDecode(BeforeToken(Tail(query), "&"))
    ELSE IF Contains(query, "&") THEN FilenameParam(AfterToken(query, "&"))
    ELSE NoText
extract_filename_from_url(url) ==
    IF Contains(url, "?")
    THEN FilenameParam(BeforeToken(AfterToken(url, "?"), "?"))
    ELSE NoText

\* extract_format_from_url: the extension of the file name, else of the path,
\* when it is one of the eight known container formats.
Formats == {".mp4", ".mkv", ".avi", ".webm", ".mov", ".flv", ".wmv", ".m4v"}
NoFormat == "(none)"
LastToken(t) == IF t = <<>> THEN "" ELSE t[Len(t)]
extract_format_from_url(url) ==
    LET filename == extract_filename_from_url(url)
        path == BeforeToken(url, "?")
    IN  IF filename # NoText /\ LastToken(filename) \in Formats THEN LastToken(filename)
        ELSE IF LastToken(path) \in Formats THEN LastToken(path)
        ELSE NoFormat

\* ----------------------------------------------------------- parser: pages
\* A page is the sequence, in document order, of the constructs the parsers
\* look for.  url, label and lang hold the text as it stands in the page.
Item(kind, url, res, label, lang, default) ==
    [kind |-> kind, url |-> url, res |-> res, label |-> label, lang |-> lang,
     default |-> default]

\* URLs on the CDN; dir tells the construct of the page the URL stands in.
Cdn(dir, file) ==
    <<"https://", "pf-storage3", ".", "premiumcdn.net", "/", dir, "/", file, ".mp4">>
CdnEscaped(dir) ==
    <<"https://", "pf-storage3", ".", "premiumcdn.net", "/", dir, "/", "c", ".mp4",
      "?", "token=x", "&", "amp;", "expires=1">>
CdnOriginal ==
    <<"https://", "pf-storage3", ".", "premiumcdn.net", "/", "f",
      "?", "filename=", "Movie", "%20", "2160", "p", ".mkv", "&", "amp;", "token=x">>
CdnLookalike == <<"https://", "cdn.", "example.com", "/", "premium", "/", "f", ".mp4">>
SitePage == <<"https://", "prehraj.to", "/", "slug", "/", "id">>

\* videos.push({ src: "URL", type: .., res: 'NUM', label: 'LABEL', default: true })
VideoJsSource(url, res, default) ==
    Item("videojs_source", url, res, <<res, "p">>, "", default)
\* { file: "URL", label: 'LABEL' }
JwPlayerSource(url, label) == Item("jwplayer_source", url, "", label, "", FALSE)
\* <a href="URL">
Anchor(url) == Item("anchor", url, "", <<>>, "", FALSE)
\* <video src="URL"> and <source src="URL">
VideoElement(url) == Item("video", url, "", <<>>, "", FALSE)
SourceElement(url) == Item("source", url, "", <<>>, "", FALSE)
\* <script> PHRASING = "URL" </script>
Script(phrasing, url) == Item("script", url, "", <<phrasing>>, "", FALSE)
\* <meta http-equiv="refresh" content="0;url=URL">
MetaRefresh(url) == Item("meta", url, "", <<>>, "", FALSE)
\* a URL somewhere else in the page text
RawText(url) == Item("text", url, "", <<>>, "", FALSE)

OfKind(html, kinds) == SelectSeq(html, LAMBDA item : item.kind \in kinds)
Map(s, Op(_)) == [i \in 1 .. Len(s) |-> Op(s[i])]

\* VideoSource
VideoSource(url, label, resolution, default) ==
    [url |-> url, label |-> label, resolution |-> resolution,
     is_default |-> default, format |-> extract_format_from_url(url)]

\* extract_videojs_sources: one source for each videos.push block, in the
\* order of the page; the URL is the captured text.
FromVideoJs(item) ==
    VideoSource(item.url, item.label, ParseU32(item.res), item.default)
extract_videojs_sources(html) == Map(OfKind(html, {"videojs_source"}), FromVideoJs)

\* extract_jwplayer_sources: one source for each { file: ".. premiumcdn ..",
\* label: '..' } entry, in the order of the page.
FromJwPlayer(item) ==
    VideoSource(item.url, item.label, parse_resolution_from_label(item.label), FALSE)
extract_jwplayer_sources(html) ==
    Map(SelectSeq(OfKind(html, {"jwplayer_source"}),
                  LAMBDA item : Contains(item.url, CDN_TOKEN)),
        FromJwPlayer)

\* parse_video_sources: the VideoJS entries, the JWPlayer entries only when
\* there is no VideoJS entry.
BothFormats(html) == extract_videojs_sources(html) \o extract_jwplayer_sources(html)
parse_video_sources(html) ==
    IF extract_videojs_sources(html) # <<>>
    THEN extract_videojs_sources(html)
    ELSE extract_jwplayer_sources(html)

\* Iterator::max_by_key: of several elements that are equally maximum the
\* last one is returned.
max_by_key(sources) ==
    CHOOSE i \in 1 .. Len(sources) :
        /\ \A j \in 1 .. Len(sources) : sources[j].resolution <= sources[i].resolution
        /\ \A j \in i + 1 .. Len(sources) : sources[j].resolution < sources[i].resolution

\* First element of a sequence of URLs, NoText when it is empty.
First(urls) == IF urls = <<>> THEN NoText ELSE Head(urls)
CdnAttrs(html, kinds) ==
    SelectSeq(Map(OfKind(html, kinds), LAMBDA item : AttrValue(item.url)), is_cdn_url)

\* extract_from_anchor: the first a[href] whose href is_cdn_url, decoded.
extract_from_anchor(html) ==
    First(Map(CdnAttrs(html, {"anchor", "card"}), decode_html_entities))

\* extract_from_video_element: the first video[src], else the first
\* source[src], whose src is_cdn_url, decoded.
extract_from_video_element(html) ==
    First(Map(CdnAttrs(html, {"video"}) \o CdnAttrs(html, {"source"}), decode_html_entities))

\* extract_from_javascript: four patterns in turn, each against the whole
\* page; a phrasing is matched by every pattern whose text it ends with.  The
\* URL is the captured text.
Phrasings == <<"window.location.href", "window.location", "location.href", "location">>
PatternMatches(k, phrasing) ==
    \/ phrasing = Phrasings[k]
    \/ k = 3 /\ phrasing = Phrasings[1]
    \/ k = 4 /\ phrasing = Phrasings[2]
\* [^"']+premiumcdn[^"']+ : text before and after the token.
AroundCdnToken(url) ==
    \E i \in 2 .. Len(url) - 1 : url[i] = CDN_TOKEN
PatternCapture(html, k) ==
    First(Map(SelectSeq(OfKind(html, {"script"}),
                        LAMBDA item : PatternMatches(k, item.label[1])
                                      /\ AroundCdnToken(item.url)),
              LAMBDA item : item.url))
RECURSIVE FirstPattern(_, _)
FirstPattern(html, k) ==
    IF k > Len(Phrasings) THEN NoText
    ELSE IF PatternCapture(html, k) # NoText THEN PatternCapture(html, k)
    ELSE FirstPattern(html, k + 1)
extract_from_javascript(html) == FirstPattern(html, 1)

\* extract_from_meta_refresh: the first refresh meta whose target is_cdn_url,
\* decoded.
extract_from_meta_refresh(html) ==
    First(Map(CdnAttrs(html, {"meta"}), decode_html_entities))

\* extract_cdn_url_generic: the first URL of the page text on premiumcdn.net
\* with a token or expires parameter behind, else the first with any text
\* behind; decoded.
HasTokenParam(url) ==
    \E i \in 3 .. Len(url), j \in 1 .. Len(url) :
        url[i] = CDN_TOKEN /\ j > i /\ url[j] \in {"token=x", "expires=1"}
GenericUrls(html, Matches(_)) ==
    SelectSeq(Map(OfKind(html, {"text"}), LAMBDA item : item.url),
              LAMBDA url : url[1] = "https://" /\ Matches(url))
extract_cdn_url_generic(html) ==
    IF GenericUrls(html, HasTokenParam) # <<>>
    THEN decode_html_entities(Head(GenericUrls(html, HasTokenParam)))
    ELSE First(Map(GenericUrls(html, LAMBDA url : \E i \in 3 .. Len(url) - 1 :
                                                      url[i] = CDN_TOKEN),
                   decode_html_entities))

\* Result<String> and Result<VideoSource> of the parsers; via tells which
\* step produced the value.
ParsedOk(by, via, value) == [by |-> by, tag |-> "Ok", via |-> via, value |-> value]
ParsedErr(by, kind) == [by |-> by, tag |-> "Err", via |-> kind, value |-> <<>>]

\* The generic strategies of parse_direct_url, in the order of lines 127-141.
MetaBeforeScript == <<"anchor", "media", "meta", "script", "raw">>
Strategies == <<"anchor", "media", "script", "meta", "raw">>
Strategy(name, html) ==
    CASE name = "anchor" -> extract_from_anchor(html)
      [] name = "media" -> extract_from_video_element(html)
      [] name = "script" -> extract_from_javascript(html)
      [] name = "meta" -> extract_from_meta_refresh(html)
      [] name = "raw" -> extract_cdn_url_generic(html)
RECURSIVE FallBack(_, _, _)
FallBack(order, html, k) ==
    IF k > Len(order) THEN ParsedErr("parse_direct_url", "NotFound")
    ELSE IF Strategy(order[k], html) # NoText
         THEN ParsedOk("parse_direct_url", order[k], Strategy(order[k], html))
         ELSE FallBack(order, html, k + 1)

\* parse_direct_url
parse_direct_url(html) ==
    LET sources == parse_video_sources(html)
    IN  IF sources # <<>>
        THEN ParsedOk("parse_direct_url", "sources", sources[max_by_key(sources)].url)
        ELSE FallBack(Strategies, html, 1)

\* ---------------------------------------------------------- parser: tracks
SubUrl(dir, file) ==
    <<"https://", "pf-storage3", ".", "premiumcdn.net", "/", dir, "/", file, ".vtt">>
LabelEng == <<"ENG", " - ", "8175377", " - ", "eng">>
LabelSimple == <<"Simple">>

\* { src: "URL", srclang: "LANG", label: "LABEL", kind: "captions", default: true }
VideoJsTrack(url, lang, label, default) ==
    Item("videojs_track", url, "", label, lang, default)
\* { file: "URL", label: "LABEL", kind: "captions", "default": true }
JwPlayerTrack(url, label, default) == Item("jwplayer_track", url, "", label, "", default)
\* Text between the constructs: a run of ASCII characters that ends 10 bytes
\* short of the look-back window, and one two-byte character.
Filler == Item("filler", <<"(ascii)">>, "", <<>>, "", FALSE)
Wide == Item("wide", <<"(U+011B)">>, "", <<>>, "", FALSE)

\* html_before_match_has_default: pos.saturating_sub(200)
LookBack == 200

\* UTF-8 length of the text of the track constructs.
Utf8Len(token) ==
    CASE token = "https://" -> 8
      [] token = "pf-storage3" -> 11
      [] token = "premiumcdn.net" -> 14
      [] token \in {".vtt"} -> 4
      [] token \in {"ENG", "eng", " - "} -> 3
      [] token \in {"8175377", "videojs"} -> 7
      [] token = "jwplayer" -> 8
      [] token = "Simple" -> 6
      [] token = "(U+011B)" -> 2
      [] token = "(ascii)" -> LookBack - 10
      [] OTHER -> 1
RECURSIVE TextBytes(_)
TextBytes(t) == IF t = <<>> THEN 0 ELSE Utf8Len(Head(t)) + TextBytes(Tail(t))

\* Bytes from the start of a construct to its URL, and of the whole construct.
UrlOffset(item) ==
    CASE item.kind = "jwplayer_track" -> 9
      [] item.kind = "videojs_track" -> 8
      [] OTHER -> 0
ByteLen(item) ==
    CASE item.kind = "jwplayer_track" ->
            9 + TextBytes(item.url) + 11 + TextBytes(item.label) + 19
            + (IF item.default THEN 17 ELSE 0) + 2
      [] item.kind = "videojs_track" ->
            8 + TextBytes(item.url) + 13 + Utf8Len(item.lang) + 11
            + TextBytes(item.label) + 19 + (IF item.default THEN 15 ELSE 0) + 2
      [] OTHER -> TextBytes(item.url)
RECURSIVE Offset(_, _)
Offset(html, i) == IF i <= 1 THEN 0 ELSE Offset(html, i - 1) + ByteLen(html[i - 1])

\* str::is_char_boundary
is_char_boundary(html, b) ==
    ~ \E i \in 1 .. Len(html) :
          html[i].kind = "wide" /\ Offset(html, i) < b /\ b < Offset(html, i + 1)

\* clean_subtitle_label: the first " - "-separated segment, trimmed.
clean_subtitle_label(raw) == Trim(BeforeToken(raw, " - "))

\* extract_language_from_label: the last segment when there are three or
\* more, else the first one in lower case; trimmed.
RECURSIVE LastSegment(_)
LastSegment(raw) ==
    IF Contains(raw, " - ") THEN LastSegment(AfterToken(raw, " - ")) ELSE raw
Segments(raw) == Len(SelectSeq(raw, LAMBDA token : token = " - ")) + 1
extract_language_from_label(raw) ==
    IF Segments(raw) >= 3 THEN Trim(LastSegment(raw))
    ELSE LET first == Trim(BeforeToken(raw, " - "))
         IN  [i \in 1 .. Len(first) |-> ToLowercase(first[i])]

\* SubtitleTrack
SubtitleTrack(url, language, label, default) ==
    [url |-> url, language |-> language, label |-> label, is_default |-> default]

\* extract_videojs_tracks
FromVideoJsTrack(item) ==
    SubtitleTrack(item.url, <<item.lang>>, clean_subtitle_label(item.label), item.default)
extract_videojs_tracks(html) == Map(OfKind(html, {"videojs_track"}), FromVideoJsTrack)

\* html_before_match_has_default: the window html[start..pos] before the first
\* occurrence of the URL.  The slice panics when start is inside a character.
FirstOccurrence(html, url) ==
    CHOOSE i \in 1 .. Len(html) :
        /\ html[i].url = url
        /\ \A j \in 1 .. i - 1 : html[j].url # url
UrlPos(html, url) ==
    Offset(html, FirstOccurrence(html, url)) + UrlOffset(html[FirstOccurrence(html, url)])
WindowStart(html, url) == Max(UrlPos(html, url) - LookBack, 0)
SlicePanics(html, url) == ~ is_char_boundary(html, WindowStart(html, url))
\* The text from the last '{' of the window to the URL: the first key of the
\* construct that holds the URL when that is a track, else everything from
\* the nearest track that begins inside the window.
IsTrack(item) == item.kind \in {"videojs_track", "jwplayer_track"}
BraceBefore(html, i, start) ==
    { j \in 1 .. i - 1 : IsTrack(html[j]) /\ Offset(html, j) >= start }
html_before_match_has_default(html, url) ==
    LET i == FirstOccurrence(html, url)
        braces == BraceBefore(html, i, WindowStart(html, url))
    IN  /\ ~ IsTrack(html[i])
        /\ braces # {}
        /\ LET j == CHOOSE j \in braces : \A k \in braces : k <= j
           IN  html[j].kind = "jwplayer_track" /\ html[j].default

\* extract_jwplayer_tracks: is_default is the marker behind kind, else what
\* html_before_match_has_default says.
JwQualifies(item) ==
    \E i \in 2 .. Len(item.url) : item.url[i] = ".vtt"
NeedsLookBack(item) == item.kind = "jwplayer_track" /\ JwQualifies(item) /\ ~ item.default
FromJwPlayerTrack(html, item) ==
    SubtitleTrack(item.url, extract_language_from_label(item.label),
                  clean_subtitle_label(item.label),
                  item.default \/ html_before_match_has_default(html, item.url))
extract_jwplayer_tracks(html) ==
    Map(SelectSeq(OfKind(html, {"jwplayer_track"}), JwQualifies),
        LAMBDA item : FromJwPlayerTrack(html, item))
JwPlayerTracksPanic(html) ==
    \E i \in 1 .. Len(html) : NeedsLookBack(html[i]) /\ SlicePanics(html, html[i].url)

Panicked(by) == [by |-> by, tag |-> "Panic", via |-> "slice", value |-> <<>>]

\* parse_subtitle_tracks: the VideoJS tracks, the JWPlayer tracks only when
\* there is no VideoJS track.
parse_subtitle_tracks(html) ==
    IF extract_videojs_tracks(html) # <<>>
    THEN ParsedOk("parse_subtitle_tracks", "videojs", extract_videojs_tracks(html))
    ELSE IF JwPlayerTracksPanic(html)
         THEN Panicked("parse_subtitle_tracks")
         ELSE ParsedOk("parse_subtitle_tracks", "jwplayer", extract_jwplayer_tracks(html))

\* ---------------------------------------------------------- parser: search
\* <a href="HREF"><h3>HEADING</h3></a>, inside <main> or outside of it;
\* without_h3 is a link with no heading element.
Card(href, heading, region) == Item("card", href, "", heading, region, TRUE)
LinkWithoutH3(href, region) == Item("card", href, "", <<>>, region, FALSE)

\* str::split on a one-token separator: the segments, empty ones included.
RECURSIVE Split(_, _)
Split(t, sep) ==
    IF Contains(t, sep)
    THEN <<BeforeToken(t, sep)>> \o Split(AfterToken(t, sep), sep)
    ELSE <<t>>
RECURSIVE TrimStartMatches(_, _)
TrimStartMatches(t, token) ==
    IF t # <<>> /\ Head(t) = token THEN TrimStartMatches(Tail(t), token) ELSE t

\* build_video_url, build_download_url
build_video_url(slug, id) == BASE_URL \o <<"/">> \o slug \o <<"/">> \o id
build_download_url(slug, id) == build_video_url(slug, id) \o <<"?", "do=download">>

\* extract_video_info: Some((slug, id)) or None.
NoInfo == <<>>
extract_video_info(url) ==
    LET stripped == IF StartsWith(url, BASE_URL)
                    THEN SubSeq(url, Len(BASE_URL) + 1, Len(url)) ELSE url
        path == BeforeToken(TrimStartMatches(stripped, "/"), "?")
        parts == Split(path, "/")
    IN  IF Len(parts) >= 2 /\ parts[1] # <<>> /\ parts[2] # <<>>
        THEN <<parts[1], parts[2]>>
        ELSE NoInfo

\* parse_video_card: None is NoInfo.  The cards of the model have no <div>, so
\* duration, quality and file_size are None.
parse_video_card(element) ==
    LET info == extract_video_info(AttrValue(element.url))
        name == Trim(element.label)
    IN  IF info = NoInfo \/ ~ element.default \/ name = <<>>
        THEN NoInfo
        ELSE <<[name |-> name,
                url |-> BASE_URL \o BeforeToken(AttrValue(element.url), "?"),
                video_id |-> info[2],
                video_slug |-> info[1],
                download_url |-> build_download_url(info[1], info[2]),
                duration |-> NoText, quality |-> NoText, file_size |-> NoText]>>

\* parse_search_results: the cards of the links inside <main>, in the order
\* of the page; a link that is no card is left out.
RECURSIVE Flatten(_)
Flatten(lists) == IF lists = <<>> THEN <<>> ELSE Head(lists) \o Flatten(Tail(lists))
MainLinks(html) == SelectSeq(html, LAMBDA item : item.kind = "card" /\ item.lang = "main")
CardsStopAtBad(html) ==
    LET cards == Map(MainLinks(html), parse_video_card)
        bad == { i \in 1 .. Len(cards) : cards[i] = NoInfo }
    IN  IF bad = {} THEN Flatten(cards)
        ELSE Flatten(SubSeq(cards, 1, (CHOOSE i \in bad : \A j \in bad : i <= j) - 1))
Cards(html) == Flatten(Map(MainLinks(html), parse_video_card))
parse_search_results(html) == ParsedOk("parse_search_results", "main a[href]", Cards(html))

\* -------------------------------------------------------- parser: download
\* format!("{}p", resolution)
FormatU32(n) ==
    CASE n = 480 -> "480"
      [] n = 720 -> "720"
      [] n = 1080 -> "1080"
      [] n = 2160 -> "2160"
      [] OTHER -> "0"

\* parse_original_download_url: the first a[href] whose href is_cdn_url.
OriginalSource(href) ==
    LET url == decode_html_entities(href)
        filename == extract_filename_from_url(url)
        resolution == IF filename = NoText THEN 0 ELSE parse_resolution_from_text(filename)
    IN  VideoSource(url,
                    IF resolution > 0 THEN <<FormatU32(resolution), "p">> ELSE <<"original">>,
                    resolution, FALSE)
parse_original_download_url(html) ==
    IF CdnAttrs(html, {"anchor", "card"}) # <<>>
    THEN ParsedOk("parse_original_download_url", "anchor",
                  OriginalSource(Head(CdnAttrs(html, {"anchor", "card"}))))
    ELSE ParsedErr("parse_original_download_url", "NotFound")

\* ----------------------------------------------------------- parser: specs
\* Longest page, in constructs.
MaxItems == 3

DirectItems ==
    { VideoJsSource(Cdn("videojs", "a"), "1080", TRUE),
      VideoJsSource(Cdn("videojs", "b"), "1080", FALSE),
      VideoJsSource(CdnEscaped("videojs"), "720", FALSE),
      JwPlayerSource(Cdn("jwplayer", "a"), <<"1080", "P">>),
      JwPlayerSource(Cdn("jwplayer", "b"), <<"HD">>),
      Anchor(CdnEscaped("anchor")),
      Anchor(SitePage),
      VideoElement(Cdn("video", "a")),
      SourceElement(Cdn("source", "a")),
      Script("location", Cdn("script", "a")),
      Script("window.location.href", CdnEscaped("script")),
      MetaRefresh(Cdn("meta", "a")),
      RawText(Cdn("text", "a")),
      RawText(CdnEscaped("text")) }
TrackItems ==
    { VideoJsTrack(SubUrl("videojs", "a"), "eng", LabelEng, TRUE),
      JwPlayerTrack(SubUrl("jwplayer", "a"), LabelEng, FALSE),
      JwPlayerTrack(SubUrl("jwplayer", "b"), LabelSimple, TRUE),
      Filler,
      Wide }
SearchItems ==
    { Card(<<"/", "slug", "/", "id1">>, <<"Video", " ", "1">>, "main"),
      Card(<<"/", "slug", "/", "id2", "?", "do=download">>, <<" ", "Video", " ", "2">>, "main"),
      Card(<<"/", "slug", "/", "id1">>, <<" ">>, "main"),
      Card(<<"/", "only-slug">>, <<"Page">>, "main"),
      LinkWithoutH3(<<"/", "slug", "/", "id1">>, "main"),
      Card(<<"/", "slug", "/", "id3">>, <<"Video", " ", "3">>, "nav"),
      Card(BASE_URL \o <<"/", "slug", "/", "id4">>, <<"Video", " ", "4">>, "main"),
      Card(<<"/", "slug", "/", "id5", "/", "extra">>, <<"Video", " ", "5">>, "main") }
DownloadItems ==
    { Anchor(CdnOriginal),
      Anchor(Cdn("original", "a")),
      Anchor(SitePage),
      Anchor(CdnLookalike),
      Anchor(TokenInQueryLocation) }

RECURSIVE PagesOf(_, _)
PagesOf(items, n) ==
    IF n = 0 THEN {<<>>}
    ELSE PagesOf(items, n - 1)
         \cup { Append(html, item) : html \in PagesOf(items, n - 1), item \in items }
Pages ==
    PagesOf(DirectItems, MaxItems) \cup PagesOf(TrackItems, MaxItems)
    \cup PagesOf(SearchItems, MaxItems) \cup PagesOf(DownloadItems, MaxItems)

\* A parser is handed a page.
InitParser == InitClient /\ page \in Pages /\ parsed = NotParsed /\ InitPure

\* One parser is applied to the page.  A panic ends the process.
Running == parsed.tag # "Panic"
clientVars == <<limiterVars, taskVars, fetchVars, scraperVars>>
ParseVideoSources ==
    /\ Running
    /\ parsed' = ParsedOk("parse_video_sources",
                          IF extract_videojs_sources(page) # <<>>
                          THEN "videojs" ELSE "jwplayer",
                          parse_video_sources(page))
    /\ UNCHANGED <<clientVars, page, pureVars>>
ParseSubtitleTracks ==
    /\ Running
    /\ parsed' = parse_subtitle_tracks(page)
    /\ UNCHANGED <<clientVars, page, pureVars>>
ParseDirectUrl ==
    /\ Running
    /\ parsed' = parse_direct_url(page)
    /\ UNCHANGED <<clientVars, page, pureVars>>
ParseSearchResults ==
    /\ Running
    /\ parsed' = parse_search_results(page)
    /\ UNCHANGED <<clientVars, page, pureVars>>
ParseOriginalDownloadUrl ==
    /\ Running
    /\ parsed' = parse_original_download_url(page)
    /\ UNCHANGED <<clientVars, page, pureVars>>

NextParser ==
    \/ ParseVideoSources
    \/ ParseSubtitleTracks
    \/ ParseDirectUrl
    \/ ParseSearchResults
    \/ ParseOriginalDownloadUrl

SpecParser == InitParser /\ [][NextParser]_vars

\* ---------------------------------------------------------------- backoff
\* fetch_with_retry sleeps for Duration::from_secs(1 << attempt): a u64, the
\* argument of from_secs, shifted left by the u32 attempt.  The result has
\* one bit set and is held as the position of that bit, its binary
\* logarithm: Secs(b) is 2^b seconds.
ShiftWidth == 64
\* Largest ClientConfig.max_retries the retry loop is run with.
MaxConfigured == 66
\* Overflow checks on (the dev profile) and off (the release profile).
Builds == {"debug", "release"}
Secs(bit) == [tag |-> "Secs", bit |-> bit]
ShlPanic == [tag |-> "Panic", bit |-> 0]
\* 1 << a.  A shift by the width or more overflows: the build with overflow
\* checks panics, the other shifts by a masked to the width.
Shl(a, build) ==
    IF a < ShiftWidth THEN Secs(a)
    ELSE IF build = "debug" THEN ShlPanic
    ELSE Secs(a % ShiftWidth)

\* The retry loop of a client configured with any max_retries, every attempt
\* of which fails with a retryable error.
RetryLoops == [max_retries : 0 .. MaxConfigured, build : Builds, attempt : {0}]
InitBackoff ==
    /\ InitClient /\ page = NoPage /\ parsed = NotParsed
    /\ input \in RetryLoops /\ output = NotApplied

\* Lines 154-160: the arm of a retryable error while attempts remain.
RetryArm ==
    /\ output.by = "backoff" => output.value.tag = "Secs"
    /\ input.attempt < input.max_retries
    /\ output' = [by |-> "backoff", of |-> input,
                  value |-> Shl(input.attempt, input.build)]
    /\ input' = IF Shl(input.attempt, input.build).tag = "Secs"
                THEN [input EXCEPT !.attempt = @ + 1]
                ELSE input
    /\ UNCHANGED <<clientVars, parserVars>>
\* Line 162: the error is returned once attempt = max_retries.
RetryExhausted ==
    /\ output.by \in {"none", "backoff"}
    /\ output.by = "backoff" => output.value.tag = "Secs"
    /\ input.attempt = input.max_retries
    /\ output' = [by |-> "return", of |-> input, value |-> Secs(0)]
    /\ UNCHANGED <<clientVars, parserVars, input>>

NextBackoff == RetryArm \/ RetryExhausted
SpecBackoff == InitBackoff /\ [][NextBackoff]_vars

\* ---------------------------------------------------------- subtitle labels
\* The label of a JWPlayer track, capture 2 of the regex: any text of one
\* character or more, here of words in either case, spaces and the
\* separator " - ".
MaxLabelLen == 5
LabelTokens == {"ENG", "eng", "Cze", " ", " - "}
RECURSIVE LabelsOf(_)
LabelsOf(n) ==
    IF n = 0 THEN {<<>>}
    ELSE LabelsOf(n - 1) \cup { Append(t, c) : t \in LabelsOf(n - 1), c \in LabelTokens }
Labels == LabelsOf(MaxLabelLen) \ {<<>>}
InitLabel ==
    /\ InitClient /\ page = NoPage /\ parsed = NotParsed
    /\ input \in Labels /\ output = NotApplied

\* extract_jwplayer_tracks, lines 342 and 343.
CleanSubtitleLabel ==
    /\ output' = [by |-> "clean_subtitle_label", of |-> input,
                  value |-> clean_subtitle_label(input)]
    /\ UNCHANGED <<clientVars, parserVars, input>>
ExtractLanguageFromLabel ==
    /\ output' = [by |-> "extract_language_from_label", of |-> input,
                  value |-> extract_language_from_label(input)]
    /\ UNCHANGED <<clientVars, parserVars, input>>

NextLabel == CleanSubtitleLabel \/ ExtractLanguageFromLabel
SpecLabel == InitLabel /\ [][NextLabel]_vars

\* ------------------------------------------------------------ entity decoding
\* The text handed to decode_html_entities: any text, here of the characters
\* '&', '<' and ''', the entity names and other text.
MaxTextLen == 4
TextTokens == {"&", "amp;", "lt;", "<", "'", "x"}
RECURSIVE TextsOf(_)
TextsOf(n) ==
    IF n = 0 THEN {<<>>}
    ELSE TextsOf(n - 1) \cup { Append(t, c) : t \in TextsOf(n - 1), c \in TextTokens }
InitDecode ==
    /\ InitClient /\ page = NoPage /\ parsed = NotParsed
    /\ input \in TextsOf(MaxTextLen) /\ output = NotApplied

\* decode_html_entities applied to a text, and applied to its own result.
DecodeHtmlEntities ==
    /\ output' = [by |-> "decode_html_entities", of |-> input,
                  value |-> decode_html_entities(input)]
    /\ UNCHANGED <<clientVars, parserVars, input>>
DecodeAgain ==
    /\ output.by = "decode_html_entities"
    /\ output' = [by |-> "decode_html_entities(decoded)", of |-> output.value,
                  value |-> decode_html_entities(output.value)]
    /\ UNCHANGED <<clientVars, parserVars, input>>

NextDecode == DecodeHtmlEntities \/ DecodeAgain
SpecDecode == InitDecode /\ [][NextDecode]_vars

\* ------------------------------------------------------------ limiter claims
InAcquire(p) == pc[p] \in {"lock", "limiter_sleep"}
\* Between reading last_request (line 61) and writing it (line 68).
InCritical(p) == pc[p] = "limiter_sleep"

\* C1: two consecutive acquisitions are granted at instants (the successive
\* values written to last_request) that differ by at least min_interval.
C1_GrantSpacing == grant_gap >= min_interval

\* A caller that called acquire() in the instant of the previous grant, was
\* made to wait the whole interval and has just been granted.
C1_Witness ==
    \E p \in Callers :
        /\ pc[p] = "done"
        /\ waited[p] = min_interval
        /\ elapsed = 0
        /\ grant_gap = min_interval

\* C2: concurrent acquirers are serialized on last_request: at most one
\* caller is between reading it and writing it, no value of last_request is
\* read by two acquirers, and no step of the program moves last_request
\* back (the time since it grows only by the passing of time).
C2_Serialized ==
    /\ [](Cardinality({p \in Callers : InCritical(p)}) <= 1)
    /\ [](slot_reads <= 1)
    /\ [][pc' # pc => elapsed' <= elapsed]_vars

\* One caller sleeps inside the critical section, having read the value the
\* previous acquirer wrote, while another caller is queued on the lock.
C2_Witness ==
    \E p, q \in Callers :
        /\ pc[p] = "limiter_sleep" /\ remaining[p] > 0
        /\ holder = p
        /\ pc[q] = "lock"
        /\ slot_reads = 1

\* C3: under fair scheduling and fair hand-off of the lock, every acquire()
\* call eventually returns.
C3_AcquireReturns ==
    \A p \in Callers : InAcquire(p) ~> (pc[p] = "done")

\* Every caller has returned from acquire(), one of them after queueing
\* behind the others and waiting the whole interval.
C3_Witness ==
    /\ \A p \in Callers : pc[p] = "done" /\ nAcq[p] = 1
    /\ \E q \in Callers : waited[q] = min_interval

\* -------------------------------------------------------------- fetch claims
Fetching(p) == p \in Fetchers /\ op[p] = "fetch"
Downloading(p) == p \in Fetchers /\ op[p] = "fetch_download_page"

\* The failures the design calls retryable: RateLimited (429) and
\* TransportFailure (connect, timeout, 5xx).
Transient(e) ==
    /\ e.tag = "Err"
    /\ \/ e.kind = "RateLimited"
       \/ /\ e.kind = "HttpError"
          /\ \/ e.http \in {"timeout", "connect"}
             \/ e.http = "status" /\ e.status >= 500

\* A 3xx response whose Location header is a URL.
Redirects(p) == response[p].status \in 300 .. 399 /\ response[p].location \in Locations

\* The design's CDN predicate: the host of the URL contains the token.
OnCdnDomain(url) == Contains(Host(url), CDN_TOKEN)
\* The predicate do_fetch applies: the text of the URL contains the token.
MentionsCdn(url) == Contains(url, CDN_TOKEN)

\* C4: in fetch, every attempt, the first one and each retry, has called
\* acquire() and seen it return before the attempt issues its first GET.
C4_AcquireBeforeGet ==
    \A p \in Callers :
        Fetching(p) /\ pc[p] \in {"get", "io", "backoff", "done"} =>
            nAcq[p] = attempt[p] + 1 /\ holder # p

\* The first GET of the last retry is in flight.
C4_Witness ==
    \E p \in Callers :
        /\ Fetching(p) /\ pc[p] = "io"
        /\ attempt[p] = max_retries /\ hops[p] = 1
        /\ nAcq[p] = max_retries + 1

\* C5: any two outgoing GETs issued through one client are separated by at
\* least min_interval, the GETs of successive redirect hops included.
C5_GetSpacing ==
    [][\A p \in Callers :
          pc[p] = "get" /\ pc'[p] = "io" => get_age >= min_interval]_vars

\* The second GET of an attempt is in flight in the instant in which the
\* attempt's acquire() returned: two GETs with no time between them.
C5_Witness ==
    \E p \in Callers :
        /\ Fetching(p) /\ pc[p] = "io"
        /\ hops[p] = 2 /\ nAcq[p] = 1
        /\ elapsed = 0 /\ get_age = 0
        /\ \A q \in Callers \ {p} : pc[q] = "idle"

\* C6: fetch retries only retryable failures and at most max_retries times;
\* when the attempt after the last allowed retry fails retryably, that
\* attempt's error is returned unmodified and neither an acquire, a GET nor
\* a backoff sleep follows.
C6_RetryBudget ==
    \A p \in Callers : Fetching(p) =>
        /\ attempt[p] <= max_retries
        /\ nSleep[p] <= max_retries
        /\ pc[p] = "backoff" => Transient(fetched[p]) /\ nSleep[p] = attempt[p] + 1
        /\ pc[p] # "backoff" => nSleep[p] = attempt[p]
        /\ attempt[p] > 0 /\ pc[p] # "done" => Transient(last_error[p])
        /\ pc[p] = "done" => result[p] = fetched[p]
        /\ pc[p] = "done" /\ Transient(fetched[p]) =>
              /\ attempt[p] = max_retries
              /\ nAcq[p] = max_retries + 1
              /\ nSleep[p] = max_retries

\* fetch has returned the rate-limit error of its last allowed attempt.
C6_Witness ==
    \E p \in Callers :
        /\ Fetching(p) /\ pc[p] = "done"
        /\ result[p] = RateLimited
        /\ response[p].status = 429
        /\ attempt[p] = max_retries

\* C7: a 404 response on any hop of any attempt ends fetch at once with a
\* not-found error, with no backoff sleep, acquire or GET after it, whatever
\* retry budget remains; the same holds for every other failure that is not
\* retryable.
C7_NotFoundEndsFetch ==
    \A p \in Callers : Fetching(p) =>
        /\ response[p].status = 404 =>
              /\ pc[p] = "done"
              /\ result[p] = NotFound(current_url[p])
              /\ nSleep[p] = attempt[p] /\ nAcq[p] = attempt[p] + 1
        /\ fetched[p].tag = "Err" /\ ~Transient(fetched[p]) =>
              /\ pc[p] = "done"
              /\ result[p] = fetched[p]
              /\ nSleep[p] = attempt[p] /\ nAcq[p] = attempt[p] + 1

\* A 404 on the second hop of a retry, with retry budget left.
C7_Witness ==
    \E p \in Callers :
        /\ Fetching(p) /\ pc[p] = "done"
        /\ response[p].status = 404
        /\ hops[p] = 2
        /\ attempt[p] = 1 /\ attempt[p] < max_retries

\* C8: fetch never sends a GET to a URL on the CDN domain; a 3xx response
\* whose Location is on the CDN domain ends the attempt with the body of
\* that response; a Location that is not on the CDN domain is followed.
C8_CdnDomainNotFollowed ==
    \A p \in Callers : Fetching(p) =>
        /\ pc[p] = "io" => ~OnCdnDomain(current_url[p])
        /\ Redirects(p) /\ OnCdnDomain(response[p].location) =>
              /\ pc[p] \in {"done", "backoff"}
              /\ fetched[p].tag = "Ok" => fetched[p].status = response[p].status
        /\ Redirects(p) /\ ~OnCdnDomain(response[p].location) =>
              /\ current_url[p] = response[p].location
              /\ pc[p] = "get" \/ hops[p] = max_redirects

\* The first response redirects to a page of the site whose query string
\* names the CDN; fetch has returned the body of that response.
C8_Witness ==
    \E p \in Callers :
        /\ Fetching(p) /\ pc[p] = "done"
        /\ response[p] = [status |-> 302, location |-> TokenInQueryLocation]
        /\ ~OnCdnDomain(response[p].location)
        /\ hops[p] = 1
        /\ result[p] = Ok(302, 1)

\* What do_fetch does instead of C8: the test is on the text of the
\* Location.  fetch never sends a GET to a URL whose text contains
\* "premiumcdn.net"; a 3xx response whose Location contains it, in the host
\* or anywhere else, ends the attempt with the body of that response or
\* with the error of reading that body; a Location that does not contain it
\* becomes the URL of the attempt's next GET unless the attempt has already
\* sent max_redirects GETs.
CdnTokenNotFollowed ==
    \A p \in Callers : Fetching(p) =>
        /\ pc[p] = "io" => ~MentionsCdn(current_url[p])
        /\ Redirects(p) /\ MentionsCdn(response[p].location) =>
              /\ pc[p] \in {"done", "backoff"}
              /\ fetched[p] \in { Ok(response[p].status, h) : h \in 1 .. max_redirects }
                                \cup {HttpError("timeout", 0), HttpError("decode", 0)}
              /\ fetched[p].tag = "Ok" =>
                    /\ pc[p] = "done"
                    /\ result[p] = Ok(response[p].status, hops[p])
        /\ Redirects(p) /\ ~MentionsCdn(response[p].location) =>
              /\ current_url[p] = response[p].location
              /\ \/ pc[p] = "get" /\ hops[p] < max_redirects
                 \/ pc[p] = "done" /\ hops[p] = max_redirects

\* C9: one attempt sends at most max_redirects = 5 GETs, and an attempt
\* whose 5th response is again a redirect to a Location that is not on the
\* CDN domain fails with the 'Too many redirects' ParseError, which is not
\* retried.
C9_BoundedRedirects ==
    \A p \in Callers : Fetching(p) =>
        /\ hops[p] <= max_redirects
        /\ /\ hops[p] = max_redirects
           /\ Redirects(p)
           /\ ~OnCdnDomain(response[p].location)
           => /\ pc[p] = "done"
              /\ result[p] = ParseError
              /\ nSleep[p] = attempt[p] /\ nAcq[p] = attempt[p] + 1
        /\ fetched[p] = ParseError => pc[p] = "done" /\ hops[p] = max_redirects

\* The 5th response of the first attempt redirects to a page of the site
\* whose query string names the CDN; fetch has returned the body of that
\* response, not the ParseError.
C9_Witness ==
    \E p \in Callers :
        /\ Fetching(p) /\ pc[p] = "done"
        /\ hops[p] = max_redirects
        /\ response[p] = [status |-> 302, location |-> TokenInQueryLocation]
        /\ result[p] = Ok(302, max_redirects)
        /\ attempt[p] = 0

\* What do_fetch does about C9 when "followed" is read as do_fetch reads
\* it: an attempt sends at most max_redirects GETs, and an attempt whose
\* 5th response is a redirect whose Location does not contain
\* "premiumcdn.net" fails with the ParseError, which is not retried.
FollowedRedirectsBounded ==
    \A p \in Callers : Fetching(p) =>
        /\ hops[p] <= max_redirects
        /\ /\ hops[p] = max_redirects
           /\ Redirects(p)
           /\ ~MentionsCdn(response[p].location)
           => /\ pc[p] = "done"
              /\ result[p] = ParseError
              /\ nSleep[p] = attempt[p] /\ nAcq[p] = attempt[p] + 1
        /\ fetched[p] = ParseError => pc[p] = "done" /\ hops[p] = max_redirects

\* C10: fetch_download_page follows the rules of fetch: every attempt is
\* preceded by acquire(), a 429, a 5xx, a connection failure or a timeout is
\* retried with backoff up to max_retries, and a 404 is returned as a
\* not-found failure, not as a body.
C10_DownloadSameRules ==
    \A p \in Callers : Downloading(p) /\ pc[p] = "done" =>
        /\ nAcq[p] = attempt[p] + 1
        /\ response[p].status = 404 => result[p].kind = "NotFound"
        /\ response[p].status = 429 => result[p] = RateLimited
        /\ \/ response[p].status \in {429, 503}
           \/ Transient(result[p])
           => attempt[p] = max_retries /\ nSleep[p] = max_retries

\* fetch_download_page was answered 429 and has returned the body of that
\* response as its success value, after one acquire() and no retry.
C10_Witness ==
    \E p \in Callers :
        /\ Downloading(p) /\ pc[p] = "done"
        /\ response[p].status = 429
        /\ result[p] = Ok(429, 1)
        /\ nAcq[p] = 1 /\ nSleep[p] = 0

\* ------------------------------------------------------------ scraper claims
Blank(t) == \A i \in 1 .. Len(t) : t[i] \in WhiteSpace
\* Task p was between two methods and this step is its call of a method.
Called(p) ==
    /\ api[p] = "none" \/ outcome[p] # None
    /\ \/ pc'[p] # pc[p]
       \/ <<api[p], arg[p], outcome[p]>>' # <<api[p], arg[p], outcome[p]>>

\* C11: a method of the scraper called with an empty or whitespace-only
\* query, movie name or video id returns InvalidId in the step of the call:
\* the limiter, the task's position and the counters of acquire() calls and
\* GETs are what they were, and no client call is ever running for it.
C11_RejectedBeforeNetwork ==
    /\ [](\A p \in Callers :
            api[p] # "none" /\ Blank(arg[p]) =>
                /\ outcome[p].kind = "InvalidId"
                /\ pc[p] = "idle" /\ nAcq[p] = 0 /\ hops[p] = 0)
    /\ [][\A p \in Callers :
            Called(p) /\ Blank(arg'[p]) =>
                /\ outcome'[p].kind = "InvalidId"
                /\ UNCHANGED <<limiterVars, taskVars, fetchVars>>]_vars

\* get_original_url was called with a video id of two spaces, shortly after
\* an earlier method had sent a GET, and has returned InvalidId.
C11_Witness ==
    \E p \in Callers :
        /\ api[p] = "get_original_url"
        /\ arg[p] = <<" ", " ">>
        /\ outcome[p] = InvalidId("Video ID cannot be empty")
        /\ pc[p] = "idle"
        /\ elapsed < min_interval /\ get_age < min_interval

\* C12: in get_original_url the download page is requested only after the
\* fetch of the video page has returned Ok on the same client; when that
\* fetch returns an error, fetch_download_page is never called and the
\* error is what get_original_url returns.
C12_TwoCallProtocol ==
    \A p \in Callers : api[p] = "get_original_url" =>
        /\ op[p] = "fetch_download_page" => step1[p].tag = "Ok"
        /\ step1[p].tag = "Err" => outcome[p] = step1[p] /\ op[p] = "none"
        /\ step1[p] = None /\ outcome[p] = None => op[p] = "fetch"

\* The video page was fetched through one redirect and the GET of the
\* download page is in flight.
C12_Witness ==
    \E p \in Callers :
        /\ api[p] = "get_original_url"
        /\ step1[p] = Ok(200, 2)
        /\ op[p] = "fetch_download_page" /\ pc[p] = "io"
        /\ nAcq[p] = 1 /\ hops[p] = 1

\* C13: a caller that abandons an operation at a suspension point leaves
\* nothing behind: the lock is held only by a task inside acquire() and the
\* queue holds only tasks waiting in lock().await; the step that abandons an
\* acquire() before its write leaves last_request as it was; and under fair
\* scheduling every acquire() of a task that is not itself abandoned returns.
C13_AbandonLeavesNothing ==
    /\ [](\A p \in Callers :
            /\ holder = p => pc[p] = "limiter_sleep"
            /\ (\E i \in 1 .. Len(waiters) : waiters[i] = p) => pc[p] = "lock")
    /\ [][\A p \in Callers :
            Suspended(p) /\ op'[p] = "abandoned" =>
                /\ elapsed' = elapsed /\ grant_gap' = grant_gap
                /\ holder' # p
                /\ \A i \in 1 .. Len(waiters') : waiters'[i] # p]_vars
    /\ \A q \in Callers : InAcquire(q) ~> ~InAcquire(q)

\* One task has abandoned its operation and is idle; the acquire() of
\* another task, which had to wait, has returned since, and the lock is
\* free.
C13_Witness ==
    \E p, q \in Callers :
        /\ p # q
        /\ pc[p] = "idle" /\ op[p] = "abandoned"
        /\ pc[q] = "done" /\ op[q] = "acquire" /\ waited[q] > 0
        /\ elapsed = 0
        /\ holder = NoCaller /\ waiters = <<>>

\* ------------------------------------------------------------- parser claims
Returned_by(name) == parsed.by = name /\ parsed.tag # "None"
Resolutions(sources) == { sources[i].resolution : i \in 1 .. Len(sources) }
Greatest(sources) == CHOOSE r \in Resolutions(sources) : \A s \in Resolutions(sources) : s <= r
FirstWith(sources, r) ==
    CHOOSE i \in 1 .. Len(sources) :
        sources[i].resolution = r /\ \A j \in 1 .. i - 1 : sources[j].resolution # r

\* C14: when the page yields at least one structured source, parse_direct_url
\* returns the URL of the source with the greatest resolution, and of several
\* sources with that resolution the one that comes first in the page.
C14_GreatestFirstOnTies ==
    LET sources == parse_video_sources(page)
    IN  Returned_by("parse_direct_url") /\ sources # <<>> =>
            /\ parsed.tag = "Ok"
            /\ parsed.value = sources[FirstWith(sources, Greatest(sources))].url
\* parse_direct_url has returned for a page in which two sources with
\* different URLs share the greatest resolution.
C14_Witness ==
    LET sources == parse_video_sources(page)
    IN  /\ Returned_by("parse_direct_url") /\ parsed.via = "sources"
        /\ \E i, j \in 1 .. Len(sources) :
              /\ i < j /\ sources[i].url # sources[j].url
              /\ sources[i].resolution = Greatest(sources)
              /\ sources[j].resolution = Greatest(sources)
\* What holds of the code: the returned URL is the URL of a source with the
\* greatest resolution.
GreatestResolutionReturned ==
    LET sources == parse_video_sources(page)
    IN  Returned_by("parse_direct_url") /\ sources # <<>> =>
            /\ parsed.tag = "Ok"
            /\ \E i \in 1 .. Len(sources) :
                  sources[i].resolution = Greatest(sources) /\ parsed.value = sources[i].url

\* C15: when no structured source exists, parse_direct_url returns the result
\* of the first strategy that succeeds, in the order anchor, media element,
\* inline-script redirect, meta-refresh, raw pattern search: the URL of a
\* later strategy is returned only if every earlier one found nothing, and
\* not-found only if all found nothing.
ClaimedOrder == <<"anchor", "media", "script", "meta", "raw">>
Succeeds(k) == Strategy(ClaimedOrder[k], page) # NoText
C15_FirstStrategyWins ==
    Returned_by("parse_direct_url") /\ parse_video_sources(page) = <<>> =>
        /\ \A k \in 1 .. Len(ClaimedOrder) :
              Succeeds(k) /\ (\A j \in 1 .. k - 1 : ~ Succeeds(j)) =>
                  /\ parsed.tag = "Ok"
                  /\ parsed.via = ClaimedOrder[k]
                  /\ parsed.value = Strategy(ClaimedOrder[k], page)
        /\ (\A k \in 1 .. Len(ClaimedOrder) : ~ Succeeds(k)) =>
                  parsed.tag = "Err" /\ parsed.via = "NotFound"
\* The script strategy won on a page where the meta and raw strategies
\* succeed as well.
C15_Witness ==
    /\ Returned_by("parse_direct_url") /\ parse_video_sources(page) = <<>>
    /\ parsed.via = "script"
    /\ Succeeds(4) /\ Succeeds(5)
    /\ Strategy("meta", page) # parsed.value

\* C16: source and subtitle extraction each use one player format per page:
\* the returned list never holds entries of both formats, and it holds
\* entries of the secondary format only when the page has no entry of the
\* primary format.
FromFormat(entry, format) == Contains(entry.url, format)
OneFormat(list, primaryKind) ==
    /\ ~ \E i, j \in 1 .. Len(list) :
            FromFormat(list[i], "videojs") /\ FromFormat(list[j], "jwplayer")
    /\ (\E i \in 1 .. Len(list) : FromFormat(list[i], "jwplayer")) =>
            OfKind(page, {primaryKind}) = <<>>
    /\ OfKind(page, {primaryKind}) # <<>> => Len(list) = Len(OfKind(page, {primaryKind}))
C16_OnePlayerFormat ==
    /\ Returned_by("parse_video_sources") => OneFormat(parsed.value, "videojs_source")
    /\ Returned_by("parse_subtitle_tracks") /\ parsed.tag = "Ok" =>
            OneFormat(parsed.value, "videojs_track")
\* The sources of a page that has entries of both formats have been returned.
C16_Witness ==
    /\ Returned_by("parse_video_sources")
    /\ OfKind(page, {"videojs_source"}) # <<>>
    /\ OfKind(page, {"jwplayer_source"}) # <<>>
    /\ parsed.value # <<>>

\* C17: every URL parse_direct_url returns has been entity-decoded, whichever
\* step produced it: it contains none of the five escapes.
HasEscape(t) == \E e \in {AMP, LT, GT, QUOT, APOS} : ContainsText(t, e)
C17_EveryUrlDecoded ==
    Returned_by("parse_direct_url") /\ parsed.tag = "Ok" => ~ HasEscape(parsed.value)
\* The inline-script strategy produced the URL, and the URL has an escape in
\* the page.
C17_Witness ==
    /\ Returned_by("parse_direct_url") /\ parsed.via = "script"
    /\ HasEscape(extract_from_javascript(page))
\* What holds of the code: the URLs of the anchor, media element, meta-refresh
\* and raw strategies hold no escape.
DecodingStrategiesDecode ==
    Returned_by("parse_direct_url") /\ parsed.via \in {"anchor", "media", "meta", "raw"} =>
        ~ HasEscape(parsed.value)

\* C18: no extractor panics, whatever the page text: the look-back window
\* before a subtitle URL never begins inside a character.
C18_NoPanic == parsed.tag # "Panic"
\* The JWPlayer tracks of a page with a two-byte character before a track
\* that has no default marker have been returned.
C18_Witness ==
    /\ Returned_by("parse_subtitle_tracks") /\ parsed.tag = "Ok" /\ parsed.via = "jwplayer"
    /\ \E i, j \in 1 .. Len(page) :
          i < j /\ page[i].kind = "wide" /\ NeedsLookBack(page[j])
          /\ UrlPos(page, page[j].url) > LookBack

\* C19: parse_search_results returns the valid cards in document order and
\* never fails: a link without a non-empty heading or without a (slug, id)
\* pair is left out and the other cards are returned; no valid card gives
\* the empty list.
ValidCard(item) ==
    /\ item.kind = "card" /\ item.lang = "main"
    /\ item.default /\ \E i \in 1 .. Len(item.label) : item.label[i] # " "
    /\ extract_video_info(item.url) # NoInfo
C19_ValidCardsInOrder ==
    LET valid == SelectSeq(page, ValidCard)
    IN  Returned_by("parse_search_results") =>
            /\ parsed.tag = "Ok"
            /\ Len(parsed.value) = Len(valid)
            /\ \A k \in 1 .. Len(valid) :
                  /\ parsed.value[k].name = Trim(valid[k].label)
                  /\ <<parsed.value[k].video_slug, parsed.value[k].video_id>>
                        = extract_video_info(valid[k].url)
\* A valid card that follows a link which is no card has been returned.
C19_Witness ==
    /\ Returned_by("parse_search_results") /\ parsed.value # <<>>
    /\ \E i, j \in 1 .. Len(page) :
          /\ i < j /\ ValidCard(page[j])
          /\ page[i].kind = "card" /\ page[i].lang = "main" /\ ~ ValidCard(page[i])

\* C20: parse_original_download_url builds its result from the first anchor
\* whose href is on the CDN domain, with is_default = false and the label
\* '<resolution>p' when the resolution is > 0, 'original' otherwise; it fails
\* with not-found exactly when no anchor has an href on the CDN domain.
HrefOnCdnDomain(item) ==
    item.kind \in {"anchor", "card"} /\ Contains(Host(AttrValue(item.url)), CDN_TOKEN)
C20_FirstCdnDomainAnchor ==
    LET onCdn == SelectSeq(page, HrefOnCdnDomain)
    IN  Returned_by("parse_original_download_url") =>
            IF onCdn = <<>>
            THEN parsed.tag = "Err" /\ parsed.via = "NotFound"
            ELSE /\ parsed.tag = "Ok"
                 /\ parsed.value.url = decode_html_entities(AttrValue(Head(onCdn).url))
                 /\ ~ parsed.value.is_default
                 /\ parsed.value.label =
                        IF parsed.value.resolution > 0
                        THEN <<FormatU32(parsed.value.resolution), "p">>
                        ELSE <<"original">>
\* The result was built from an anchor on the CDN domain whose file name
\* gives a resolution.
C20_Witness ==
    /\ Returned_by("parse_original_download_url") /\ parsed.tag = "Ok"
    /\ parsed.value.resolution = 2160 /\ parsed.value.label = <<"2160", "p">>
    /\ Contains(Host(parsed.value.url), CDN_TOKEN)
\* What holds of the code: the same with is_cdn_url in the place of the host.
FirstCdnUrlAnchor ==
    LET cdn == SelectSeq(page, LAMBDA item :
                   item.kind \in {"anchor", "card"} /\ is_cdn_url(AttrValue(item.url)))
    IN  Returned_by("parse_original_download_url") =>
            IF cdn = <<>>
            THEN parsed.tag = "Err" /\ parsed.via = "NotFound"
            ELSE /\ parsed.tag = "Ok"
                 /\ parsed.value.url = decode_html_entities(AttrValue(Head(cdn).url))
                 /\ ~ parsed.value.is_default
                 /\ parsed.value.label =
                        IF parsed.value.resolution > 0
                        THEN <<FormatU32(parsed.value.resolution), "p">>
                        ELSE <<"original">>

\* ------------------------------------------------------------ backoff claims
\* C21: the backoff sleep after the failed attempt of index k is exactly 2^k
\* seconds, for every k < max_retries and every configurable max_retries:
\* the shift 1 << k does not overflow.
C21_BackoffIsTwoToTheAttempt ==
    output.by = "backoff" =>
        /\ output.of.attempt < output.of.max_retries
        /\ output.value = Secs(output.of.attempt)
\* The shift by the whole width, computed without overflow checks.
C21_Witness ==
    /\ output.by = "backoff" /\ output.of.build = "release"
    /\ output.of.attempt = ShiftWidth /\ output.value = Secs(0)
\* What holds of the code: the sleep is 2^k seconds while k is below the width.
BackoffBelowWidth ==
    output.by = "backoff" /\ output.of.attempt < ShiftWidth =>
        output.value = Secs(output.of.attempt)

\* -------------------------------------------------------------- retry claims
\* C22: in fetch a 429 response is classified as rate-limited and is
\* retryable, and any 5xx response, connection failure or timeout is
\* retryable; while retry budget remains each of them leads to a backoff
\* sleep followed by a new attempt, never to an immediate return.
Classified(p) ==
    /\ response[p].status = 429 => fetched[p] = RateLimited
    /\ IsServerError(response[p].status) =>
          fetched[p] = HttpError("status", response[p].status)
    /\ Transient(fetched[p]) => is_retryable(fetched[p])
RetriedWhileBudgetRemains(p) ==
    Transient(fetched[p]) /\ attempt[p] < max_retries =>
        /\ pc[p] = "backoff"
        /\ result[p] = None
        /\ nSleep[p] = attempt[p] + 1
SleepThenNewAttempt(p) ==
    /\ pc[p] # "backoff" /\ pc'[p] = "backoff" => remaining'[p] >= 1
    /\ pc[p] = "backoff" /\ pc'[p] # "backoff" =>
          /\ remaining[p] = 0
          /\ pc'[p] = "lock"
          /\ attempt'[p] = attempt[p] + 1
          /\ result'[p] = None
C22_TransientFailuresRetried ==
    [][\A p \in Fetchers : Fetching(p)' =>
          /\ Classified(p)'
          /\ RetriedWhileBudgetRemains(p)'
          /\ SleepThenNewAttempt(p)]_vars
\* A 429 was answered with a backoff sleep and a new attempt, whose 503 has
\* put fetch to sleep again.
C22_Witness ==
    \E p \in Fetchers :
        /\ Fetching(p) /\ pc[p] = "backoff" /\ attempt[p] = 1
        /\ last_error[p] = RateLimited
        /\ response[p].status = 503 /\ fetched[p] = HttpError("status", 503)
        /\ remaining[p] = Backoff(1)
\* A connection failure and a timeout of the body are slept on as well.
ConnectFailureRetried ==
    \E p \in Fetchers :
        /\ Fetching(p) /\ pc[p] = "backoff"
        /\ response[p] = SendFailed /\ fetched[p] = HttpError("connect", 0)
TimeoutRetried ==
    \E p \in Fetchers :
        /\ Fetching(p) /\ pc[p] = "backoff"
        /\ response[p].status = 200 /\ fetched[p] = HttpError("timeout", 0)

\* ----------------------------------------------------------- download claims
\* C23: one call of fetch_download_page performs exactly one acquire()
\* followed by exactly one GET and returns the body of the response to that
\* GET as it is; it never sends a second GET to a Location, whatever the
\* status of the response, 3xx included.
C23_OneAcquireOneGet ==
    \A p \in Callers : Downloading(p) =>
        /\ pc[p] \in {"lock", "limiter_sleep"} => nAcq[p] = 0 /\ hops[p] = 0
        /\ pc[p] = "get" => nAcq[p] = 1 /\ hops[p] = 0
        /\ pc[p] \in {"io", "done"} => nAcq[p] = 1 /\ hops[p] = 1
        /\ pc[p] \in {"get", "io", "done"} => current_url[p] = BASE_URL \o Path
        /\ pc[p] = "done" /\ response[p] \in Responses =>
              result[p] \in { Text(response[p], 1, body) : body \in BodyResults }
        /\ nSleep[p] = 0 /\ attempt[p] = 0
\* A 302 with a Location on the site was answered with the body of the 302.
C23_Witness ==
    \E p \in Callers :
        /\ Downloading(p) /\ pc[p] = "done"
        /\ response[p] = [status |-> 302, location |-> SiteLocation]
        /\ result[p] = Ok(302, 1)
        /\ nAcq[p] = 1 /\ hops[p] = 1

\* ------------------------------------------------------------- order claims
\* C24: parse_video_sources returns its list sorted by resolution ascending,
\* whatever the order of the sources in the page: a page that lists 1080p
\* and then 720p yields 720p first.
SortedByResolution(sources) ==
    \A i, j \in 1 .. Len(sources) :
        i < j => sources[i].resolution <= sources[j].resolution
C24_SortedAscending ==
    Returned_by("parse_video_sources") => SortedByResolution(parsed.value)
\* Two sources of different resolutions were returned, the page listing the
\* lower one first.
C24_Witness ==
    /\ Returned_by("parse_video_sources") /\ Len(parsed.value) = 2
    /\ parsed.value[1].resolution = 720 /\ parsed.value[2].resolution = 1080
\* What holds of the code: the list is in the order of the page.
SourcesInPageOrder ==
    Returned_by("parse_video_sources") =>
        parsed.value \in {extract_videojs_sources(page), extract_jwplayer_sources(page)}

\* ------------------------------------------------------------- label claims
\* C25: for a track of the secondary (JWPlayer) format the language is the
\* trailing ' - '-separated segment of the raw descriptor in lower case and
\* the label is the first segment, trimmed; for every descriptor: of one,
\* two, three or more segments, in any letter case.
Lowered(t) == [i \in 1 .. Len(t) |-> ToLowercase(t[i])]
FirstSegment(raw) == Split(raw, " - ")[1]
TrailingSegment(raw) == Split(raw, " - ")[Len(Split(raw, " - "))]
C25_TrailingSegmentLowered ==
    /\ output.by = "clean_subtitle_label" =>
          output.value = Trim(FirstSegment(output.of))
    /\ output.by = "extract_language_from_label" =>
          output.value = Lowered(Trim(TrailingSegment(output.of)))
\* The language of "ENG - eng - Cze" was extracted.
C25_Witness ==
    /\ output.by = "extract_language_from_label"
    /\ output.of = <<"ENG", " - ", "eng", " - ", "Cze">>
    /\ output.value = <<"Cze">>
\* What holds of the code: the trailing segment as it is written when there
\* are three segments or more, the first segment in lower case otherwise.
LanguageAsCoded ==
    output.by = "extract_language_from_label" =>
        output.value =
            IF Len(Split(output.of, " - ")) >= 3
            THEN Trim(TrailingSegment(output.of))
            ELSE Lowered(Trim(FirstSegment(output.of)))
LabelIsFirstSegment ==
    output.by = "clean_subtitle_label" => output.value = Trim(FirstSegment(output.of))
\* Reached: the language of the two segments "ENG - Cze" is "eng".
TwoSegmentsTakeTheFirst ==
    /\ output.by = "extract_language_from_label"
    /\ output.of = <<"ENG", " - ", "Cze">>
    /\ output.value = <<"eng">>

\* ------------------------------------------------------------ entity claims
\* C26: decode_html_entities is idempotent, decode(decode(s)) = decode(s),
\* and a left inverse of escaping with the five entities,
\* decode(escape(s)) = s, for every text s, texts that contain '&lt;' or
\* '&amp;' included.
EscapeChar(c) ==
    CASE c = "&" -> AMP
      [] c = "<" -> LT
      [] c = ">" -> GT
      [] c = "\"" -> QUOT
      [] c = "'" -> APOS
      [] OTHER -> <<c>>
Escape(s) == Flatten([i \in 1 .. Len(s) |-> EscapeChar(s[i])])
C26_IdempotentLeftInverse ==
    /\ output.by = "decode_html_entities(decoded)" => output.value = output.of
    /\ output.by = "decode_html_entities" =>
          \A s \in TextsOf(MaxTextLen) : output.of = Escape(s) => output.value = s
\* The escape of '&lt;' was decoded.
C26_Witness ==
    /\ output.by = "decode_html_entities"
    /\ output.of = Escape(LT) /\ output.of = <<"&", "amp;", "lt;">>
    /\ output.value = <<"<">>
\* Reached: a decoded text that a second decoding changes.
DecodedTwice ==
    /\ output.by = "decode_html_entities(decoded)"
    /\ input = <<"&", "amp;", "amp;">>
    /\ output.of = AMP /\ output.value = <<"&">>
\* What holds of the code: both properties for the texts in which no '&' is
\* followed by an entity name, the escape of such a text included.
NoEntity(s) == \A e \in {AMP, LT, GT, QUOT, APOS} : ~ContainsText(s, e)
DecodeOfPlainText ==
    /\ output.by = "decode_html_entities(decoded)" /\ NoEntity(output.of) =>
          output.value = output.of
    /\ output.by = "decode_html_entities" =>
          \A s \in TextsOf(MaxTextLen) :
              NoEntity(s) /\ output.of = Escape(s) => output.value = s

\* -------------------------------------------------------- termination claims
\* C27: given that each GET returns, every call of fetch terminates with
\* exactly one outcome, after at most max_retries + 1 attempts and at most
\* max_redirects * (max_retries + 1) GETs; each retry starts again from the
\* original URL with a fresh hop count.
\* An attempt has sent at most hops GETs and each earlier attempt at most
\* max_redirects: the GETs of the call so far are at most this many.
GetsAtMost(p) == max_redirects * attempt[p] + hops[p]
\* The step in which the task calls its next operation.
NewCall(p) == pc[p] = "done" /\ pc'[p] = "lock"
C27_FetchTerminates ==
    /\ [](\A p \in Fetchers : Fetching(p) =>
            /\ attempt[p] <= max_retries /\ nAcq[p] <= max_retries + 1
            /\ hops[p] <= max_redirects
            /\ GetsAtMost(p) <= max_redirects * (max_retries + 1)
            /\ pc[p] = "done" <=> result[p] # None
            /\ pc[p] = "done" => result[p].tag \in {"Ok", "Err"})
    /\ [][\A p \in Fetchers : Fetching(p) /\ Fetching(p)' /\ ~NewCall(p) =>
            /\ pc[p] = "limiter_sleep" /\ pc'[p] = "get" =>
                  hops'[p] = 0 /\ current_url'[p] = BASE_URL \o Path
            /\ hops'[p] > hops[p] /\ pc'[p] = "io" => hops'[p] = hops[p] + 1
            /\ attempt'[p] # attempt[p] =>
                  attempt'[p] = attempt[p] + 1 /\ hops'[p] = 0
            /\ pc[p] = "done" => pc'[p] = "done" /\ result'[p] = result[p]]_vars
    /\ \A p \in Fetchers : Fetching(p) /\ pc[p] # "done" ~> pc[p] = "done"
\* The last allowed attempt has used up its redirects after a followed
\* redirect, and fetch has returned.
C27_Witness ==
    \E p \in Fetchers :
        /\ Fetching(p) /\ pc[p] = "done"
        /\ attempt[p] = max_retries /\ nAcq[p] = max_retries + 1
        /\ hops[p] = max_redirects
        /\ GetsAtMost(p) = max_redirects * (max_retries + 1)
        /\ result[p] = ParseError

\* -------------------------------------------------------------- lock claims
\* C28: the limiter lock is held for the whole of the enforced wait inside
\* acquire() and never while a GET is in flight or during a backoff sleep:
\* while one fetch sleeps in backoff or waits on the network, the acquire()
\* of another caller can be granted.
OutsideAcquire(p) == pc[p] \in {"get", "io", "backoff", "done", "idle"}
C28_LockOnlyInsideAcquire ==
    /\ \A p \in Callers :
          /\ pc[p] = "limiter_sleep" => holder = p
          /\ OutsideAcquire(p) => holder # p
          /\ pc[p] = "lock" => holder # p
    /\ \A p \in Fetchers, q \in Callers :
          /\ pc[p] \in {"io", "backoff"}
          /\ holder = NoCaller /\ waiters # <<>> /\ Head(waiters) = q
          => ENABLED AcquireLock(q)
\* Another caller's acquire() was granted, and is in its enforced wait, while
\* the fetch sleeps in backoff.
C28_Witness ==
    \E p \in Fetchers, q \in Callers \ Fetchers :
        /\ Fetching(p) /\ pc[p] = "backoff" /\ remaining[p] > 0
        /\ pc[q] = "limiter_sleep" /\ holder = q /\ remaining[q] > 0
\* The same while the GET of the fetch is in flight.
GrantedDuringGet ==
    \E p \in Fetchers, q \in Callers \ Fetchers :
        /\ Fetching(p) /\ pc[p] = "io"
        /\ pc[q] = "limiter_sleep" /\ holder = q

\* -------------------------------------------------------------- card claims
\* C29: for every VideoResult that parse_search_results returns, video_slug
\* and video_id are not empty, url is build_video_url(video_slug, video_id)
\* and download_url is url followed by '?do=download'; for every shape of
\* href that extract_video_info accepts: a relative path, an absolute URL
\* that starts with the base URL, an href with a query string, an href with
\* more than two path segments.
C29_CanonicalUrls ==
    Returned_by("parse_search_results") =>
        \A k \in 1 .. Len(parsed.value) :
            LET video == parsed.value[k]
            IN  /\ video.video_slug # <<>> /\ video.video_id # <<>>
                /\ video.url = build_video_url(video.video_slug, video.video_id)
                /\ video.download_url = video.url \o <<"?", "do=download">>
\* The card of an absolute href was returned.
C29_Witness ==
    /\ Returned_by("parse_search_results") /\ Len(parsed.value) = 1
    /\ parsed.value[1].video_slug = <<"slug">> /\ parsed.value[1].video_id = <<"id4">>
    /\ parsed.value[1].url = BASE_URL \o BASE_URL \o <<"/", "slug", "/", "id4">>
\* What holds of the code: the pair is not empty, download_url is built from
\* the pair, and url is the base URL followed by the href up to its '?'.
HrefOf(video) ==
    CHOOSE href \in { page[i].url : i \in 1 .. Len(page) } :
        extract_video_info(href) = <<video.video_slug, video.video_id>>
UrlsAsCoded ==
    Returned_by("parse_search_results") =>
        \A k \in 1 .. Len(parsed.value) :
            LET video == parsed.value[k]
            IN  /\ video.video_slug # <<>> /\ video.video_id # <<>>
                /\ video.download_url =
                      build_video_url(video.video_slug, video.video_id)
                          \o <<"?", "do=download">>
                /\ video.url = BASE_URL \o BeforeToken(HrefOf(video), "?")
\* Reached: the card of a relative href with a query string, for which the
\* claim holds.
RelativeHrefCanonical ==
    /\ Returned_by("parse_search_results") /\ Len(parsed.value) = 1
    /\ parsed.value[1].video_id = <<"id2">>
    /\ parsed.value[1].url = build_video_url(<<"slug">>, <<"id2">>)
    /\ parsed.value[1].download_url = parsed.value[1].url \o <<"?", "do=download">>

\* -------------------------------------------------------------- loop claims
\* C30: the retry loop of fetch_with_retry never exits through its while
\* condition: the trailing Err(last_error.unwrap_or(RateLimited)) is not
\* reached, and a fetch reports RateLimited only when its last attempt itself
\* received a 429.
C30_LoopExitsByReturn ==
    /\ [](\A p \in Fetchers : Fetching(p) =>
            /\ pc[p] = "backoff" => attempt[p] + 1 <= max_retries
            /\ pc[p] = "done" /\ result[p] = RateLimited =>
                  /\ response[p].status = 429
                  /\ fetched[p] = RateLimited
                  /\ nAcq[p] = attempt[p] + 1)
    /\ [][\A p \in Fetchers :
            Fetching(p) /\ pc[p] = "backoff" /\ pc'[p] # "backoff" =>
                /\ pc'[p] = "lock"
                /\ attempt'[p] <= max_retries
                /\ last_error'[p] = fetched[p]]_vars
\* The while condition was evaluated for the last value of attempt that it
\* admits, after a rate-limit error, and the loop body was entered.
C30_Witness ==
    \E p \in Fetchers :
        /\ Fetching(p) /\ pc[p] = "lock"
        /\ attempt[p] = max_retries /\ nSleep[p] = max_retries
        /\ last_error[p] = RateLimited

====
